---- MODULE Spec2Model ----
(***************************************************************************)
(* Model of the pravaha remote random-access reader (src/src/http.rs):     *)
(* the shared LRU range cache, the resident range buffer, the single-slot  *)
(* prefetch, the retrying transport wrappers and the file session          *)
(* (read / seek / tell / eof / size / close).                              *)
(***************************************************************************)
EXTENDS Integers, Sequences, FiniteSets, TLC

VARIABLES cfg, resLen, net, cache, sess, orphans, hist, last

vars == <<cfg, resLen, net, cache, sess, orphans, hist, last>>

(***************************************************************************)
(* Bounds of the model.                                                    *)
(***************************************************************************)
MaxLen == 3          \* longest resource, in bytes
MaxChunk == 2        \* largest chunk_size drawn
MaxBuf == 3          \* longest caller buffer passed to read
MaxPos == 4          \* largest seek target
MaxFails == 2        \* most queued network failures of the transport
MaxOrphans == 1      \* most detached prefetch workers still running
MaxKeys == 3         \* keys used when the cache is driven directly
MaxPayload == 3      \* longest payload inserted when the cache is driven directly
MaxRetries == 2      \* largest retry_max_attempts drawn
MaxAttempt == 22     \* largest attempt index retry_delay is applied to

\* HttpFile::MAX_REFILL_ATTEMPTS
MAX_REFILL_ATTEMPTS == 3

Sessions == {1}

(***************************************************************************)
(* Option values: None is the empty sequence, Some(x) a one-element one.   *)
(***************************************************************************)
None == <<>>
Some(x) == <<x>>
IsSome(o) == o # <<>>
Unwrap(o) == o[1]

Min(a, b) == IF a <= b THEN a ELSE b

\* u64/usize saturating arithmetic; every quantity of the model stays far
\* below the type's maximum, so only the lower saturation can be reached.
SatSub(a, b) == IF a >= b THEN a - b ELSE 0
SatAdd(a, b) == a + b

(***************************************************************************)
(* The resource served by the origin: byte i of the resource.              *)
(***************************************************************************)
ByteAt(i) == (i * 37 + 11) % 256

\* bytes [from, to) of the resource, clipped to its length n
ResourceRange(from, to, n) ==
    LET hi == Min(to, n)
    IN  IF from >= hi THEN <<>> ELSE [i \in 1..(hi - from) |-> ByteAt(from + i - 1)]

(***************************************************************************)
(* RangeCache                                                              *)
(***************************************************************************)
CacheKey(url, start, end) == [url |-> url, start |-> start, end |-> end]

CacheEntry(data) == [data |-> data, size |-> Len(data)]

\* HashMap::new
EmptyMap == [x \in {} |-> 0]

\* RangeCache::new
RangeCache_new(max_entries, max_bytes) ==
    [map |-> EmptyMap, lru |-> <<>>, max_entries |-> max_entries,
     max_bytes |-> max_bytes, current_bytes |-> 0]

\* the map without key k
MapRemove(map, k) == [x \in (DOMAIN map) \ {k} |-> map[x]]

\* the map with key k bound to entry e
MapInsert(map, k, e) == [x \in (DOMAIN map) \cup {k} |-> IF x = k THEN e ELSE map[x]]

\* remove_lru that never finds the key
remove_lru_Noop(lru, key) == lru

\* VecDeque::remove at the first position holding key
remove_lru(lru, key) ==
    IF \E i \in 1..Len(lru) : lru[i] = key
    THEN LET pos == CHOOSE i \in 1..Len(lru) :
                        /\ lru[i] = key
                        /\ \A j \in 1..(i - 1) : lru[j] # key
         IN  SubSeq(lru, 1, pos - 1) \o SubSeq(lru, pos + 1, Len(lru))
    ELSE lru

touch_lru(lru, key) == <<key>> \o remove_lru(lru, key)

\* evict_to_limits that evicts from the most recently used end
RECURSIVE evict_to_limits_Front(_)
evict_to_limits_Front(c) ==
    IF Cardinality(DOMAIN c.map) > c.max_entries \/ c.current_bytes > c.max_bytes
    THEN IF Len(c.lru) > 0
         THEN LET key == c.lru[1]
                  rest == Tail(c.lru)
              IN  IF key \in DOMAIN c.map
                  THEN evict_to_limits_Front([c EXCEPT
                           !.lru = rest,
                           !.map = MapRemove(c.map, key),
                           !.current_bytes = SatSub(c.current_bytes, c.map[key].size)])
                  ELSE evict_to_limits_Front([c EXCEPT !.lru = rest])
         ELSE c
    ELSE c

RECURSIVE evict_to_limits(_)
evict_to_limits(c) ==
    IF Cardinality(DOMAIN c.map) > c.max_entries \/ c.current_bytes > c.max_bytes
    THEN IF Len(c.lru) > 0
         THEN LET key == c.lru[Len(c.lru)]
                  rest == SubSeq(c.lru, 1, Len(c.lru) - 1)
              IN  IF key \in DOMAIN c.map
                  THEN evict_to_limits([c EXCEPT
                           !.lru = rest,
                           !.map = MapRemove(c.map, key),
                           !.current_bytes = SatSub(c.current_bytes, c.map[key].size)])
                  ELSE evict_to_limits([c EXCEPT !.lru = rest])
         ELSE c
    ELSE c

\* RangeCache::get: the cache afterwards and the payload found
RangeCache_get(c, key) ==
    IF c.max_entries = 0 \/ c.max_bytes = 0
    THEN [cache |-> c, res |-> None]
    ELSE IF key \notin DOMAIN c.map
         THEN [cache |-> c, res |-> None]
         ELSE [cache |-> [c EXCEPT !.lru = touch_lru(c.lru, key)],
               res |-> Some(c.map[key].data)]

\* insert that keeps the payload a key already holds
RangeCache_insert_KeepOld(c, key, data) ==
    IF c.max_entries = 0 \/ c.max_bytes = 0
    THEN c
    ELSE IF Len(data) > c.max_bytes \/ key \in DOMAIN c.map
         THEN c
         ELSE evict_to_limits([c EXCEPT
                  !.current_bytes = SatAdd(c.current_bytes, Len(data)),
                  !.map = MapInsert(c.map, key, CacheEntry(data)),
                  !.lru = <<key>> \o c.lru])

\* RangeCache::insert
\* insert that drops the entry held under the key before it looks at the size
RangeCache_insert_RemovesFirst(c, key, data) ==
    IF c.max_entries = 0 \/ c.max_bytes = 0
    THEN c
    ELSE LET c1 == IF key \in DOMAIN c.map
                   THEN [c EXCEPT
                            !.map = MapRemove(c.map, key),
                            !.current_bytes = SatSub(c.current_bytes, c.map[key].size),
                            !.lru = remove_lru(c.lru, key)]
                   ELSE c
         IN  IF Len(data) > c.max_bytes
             THEN c1
             ELSE evict_to_limits([c1 EXCEPT
                                      !.current_bytes = SatAdd(c1.current_bytes, Len(data)),
                                      !.map = MapInsert(c1.map, key, CacheEntry(data)),
                                      !.lru = <<key>> \o c1.lru])

RangeCache_insert(c, key, data) ==
    IF c.max_entries = 0 \/ c.max_bytes = 0
    THEN c
    ELSE IF Len(data) > c.max_bytes
         THEN c
         ELSE LET c1 == IF key \in DOMAIN c.map
                        THEN [c EXCEPT
                                 !.map = MapRemove(c.map, key),
                                 !.current_bytes = SatSub(c.current_bytes, c.map[key].size),
                                 !.lru = remove_lru(c.lru, key)]
                        ELSE c
                  c2 == [c1 EXCEPT
                            !.current_bytes = SatAdd(c1.current_bytes, Len(data)),
                            !.map = MapInsert(c1.map, key, CacheEntry(data)),
                            !.lru = <<key>> \o c1.lru]
              IN  evict_to_limits(c2)

(***************************************************************************)
(* Transport (BlockingHttp).  net is the behaviour of the origin:          *)
(*   headKnown  - HEAD answers Some(resLen) (else None)                    *)
(*   headFails  - HEAD calls that will still fail with a Network error     *)
(*   headProto  - the next answered HEAD fails with a non-Network error    *)
(*   rangeFails - GET calls that will still fail with a Network error      *)
(*   rangeProto - the next answered GET fails with a Protocol error        *)
(*   mode       - how much of the requested range a successful GET returns *)
(*   status     - the status of the responses to GET                       *)
(*   content_range - None when the responses carry no Content-Range that   *)
(*                parses, else Some(d): its start is the requested + d     *)
(***************************************************************************)
Modes == {"exact", "one", "empty", "over"}

Ok(v) == [kind |-> "ok", v |-> v]
Err(e) == [kind |-> "err", v |-> e]
IsOk(r) == r.kind = "ok"

\* BlockingHttp::get_content_length: one call
get_content_length(n) ==
    IF n.headFails > 0
    THEN [net |-> [n EXCEPT !.headFails = n.headFails - 1], res |-> Err("Network")]
    ELSE IF n.headProto
         THEN [net |-> [n EXCEPT !.headProto = FALSE], res |-> Err("Protocol")]
         ELSE [net |-> n, res |-> Ok(IF n.headKnown THEN Some(resLen) ELSE None)]

\* the body a successful GET of [start, end] carries
ResponseData(n, start, end) ==
    CASE n.mode = "exact" -> ResourceRange(start, end + 1, resLen)
      [] n.mode = "one"   -> ResourceRange(start, start + 1, resLen)
      [] n.mode = "empty" -> <<>>
      [] n.mode = "over"  -> ResourceRange(start, end + 2, resLen)

\* get_range that takes every status other than 206 and 416 for the
\* server not supporting ranges
get_range_NoRangeSupport(n, start, end) ==
    IF n.rangeFails > 0
    THEN [net |-> [n EXCEPT !.rangeFails = n.rangeFails - 1], res |-> Err("Network")]
    ELSE IF n.rangeProto
    THEN [net |-> [n EXCEPT !.rangeProto = FALSE], res |-> Err("Protocol")]
    ELSE IF n.status = 416
    THEN [net |-> n, res |-> Ok(<<>>)]
    ELSE IF n.status # 206
    THEN [net |-> n, res |-> Err("Protocol")]
    ELSE IF IsSome(n.content_range) /\ start + Unwrap(n.content_range) # start
    THEN [net |-> n, res |-> Err("Protocol")]
    ELSE [net |-> n, res |-> Ok(ResponseData(n, start, end))]

\* BlockingHttp::get_range: one call.  The request fails to be sent
\* (Network), or is answered with a response whose status, Content-Range
\* and body decide the result
get_range(n, start, end) ==
    IF n.rangeFails > 0
    THEN [net |-> [n EXCEPT !.rangeFails = n.rangeFails - 1], res |-> Err("Network")]
    ELSE IF n.rangeProto
    THEN [net |-> [n EXCEPT !.rangeProto = FALSE], res |-> Err("Protocol")]
    ELSE IF n.status = 416
    THEN [net |-> n, res |-> Ok(<<>>)]
    ELSE IF n.status = 200
    THEN [net |-> n, res |-> Err("Protocol")]
    ELSE IF n.status # 206
    THEN [net |-> n, res |-> Err("Network")]
    ELSE IF IsSome(n.content_range) /\ start + Unwrap(n.content_range) # start
    THEN [net |-> n, res |-> Err("Protocol")]
    ELSE [net |-> n, res |-> Ok(ResponseData(n, start, end))]

(***************************************************************************)
(* Retry backoff.  A Duration is a number of ticks; DurationMax stands for *)
(* Duration::MAX, past which checked_mul overflows.                        *)
(***************************************************************************)
DurationMax == 2^22 - 1

\* the cap of the shift in retry_delay
MAX_SHIFT == 20

\* retry_delay without the comparison against max
retry_delay_Unclamped(base, max, attempt) ==
    LET shift == Min(attempt, MAX_SHIFT)
        mult == 2^shift
    IN  IF base > DurationMax \div mult THEN max ELSE base * mult

\* retry_delay.  shift <= 20, so 1u32.checked_shl(shift) is always
\* Some(2^shift); base.checked_mul(mult) is None when the product is past
\* DurationMax
retry_delay(base, max, attempt) ==
    LET shift == Min(attempt, MAX_SHIFT)
        mult == 2^shift
        delay == IF base > DurationMax \div mult THEN max ELSE base * mult
    IN  IF delay > max THEN max ELSE delay

\* thread::sleep(delay) before the rest of a retry loop: slept lists the
\* sleeps of the loop in order
Sleep(delay, rest) == [rest EXCEPT !.slept = <<delay>> \o @]

\* HttpFile::get_content_length_with_retry: the loop from attempt on;
\* calls counts the transport calls made
RECURSIVE head_retry_loop(_, _, _)
head_retry_loop(n, attempt, calls) ==
    LET Answered(r) ==
            IF IsOk(r.res)
            THEN [net |-> r.net, res |-> r.res, calls |-> calls + 1, slept |-> <<>>]
            ELSE IF r.res.v = "Network" /\ attempt < cfg.retry_max_attempts
                 THEN Sleep(retry_delay(cfg.retry_base_delay, cfg.retry_max_delay, attempt),
                            head_retry_loop(r.net, attempt + 1, calls + 1))
                 ELSE [net |-> r.net, res |-> r.res, calls |-> calls + 1, slept |-> <<>>]
    IN  Answered(get_content_length(n))

get_content_length_with_retry(n) == head_retry_loop(n, 0, 0)

\* the retry loop with one attempt more than the budget
RECURSIVE range_retry_loop_ExtraAttempt(_, _, _, _, _)
range_retry_loop_ExtraAttempt(n, start, end, attempt, calls) ==
    LET Answered(r) ==
            IF IsOk(r.res)
            THEN [net |-> r.net, res |-> r.res, calls |-> calls + 1, slept |-> <<>>]
            ELSE IF r.res.v = "Network" /\ attempt <= cfg.retry_max_attempts
                 THEN Sleep(retry_delay(cfg.retry_base_delay, cfg.retry_max_delay, attempt),
                            range_retry_loop_ExtraAttempt(r.net, start, end, attempt + 1, calls + 1))
                 ELSE [net |-> r.net, res |-> r.res, calls |-> calls + 1, slept |-> <<>>]
    IN  Answered(get_range(n, start, end))

\* the retry loop that retries after every error
RECURSIVE range_retry_loop_RetryAll(_, _, _, _, _)
range_retry_loop_RetryAll(n, start, end, attempt, calls) ==
    LET Answered(r) ==
            IF IsOk(r.res)
            THEN [net |-> r.net, res |-> r.res, calls |-> calls + 1, slept |-> <<>>]
            ELSE IF attempt < cfg.retry_max_attempts
                 THEN Sleep(retry_delay(cfg.retry_base_delay, cfg.retry_max_delay, attempt),
                            range_retry_loop_RetryAll(r.net, start, end, attempt + 1, calls + 1))
                 ELSE [net |-> r.net, res |-> r.res, calls |-> calls + 1, slept |-> <<>>]
    IN  Answered(get_range(n, start, end))

\* HttpFile::get_range_with_retry, and the identical loop of the prefetch worker
RECURSIVE range_retry_loop(_, _, _, _, _)
range_retry_loop(n, start, end, attempt, calls) ==
    LET Answered(r) ==
            IF IsOk(r.res)
            THEN [net |-> r.net, res |-> r.res, calls |-> calls + 1, slept |-> <<>>]
            ELSE IF r.res.v = "Network" /\ attempt < cfg.retry_max_attempts
                 THEN Sleep(retry_delay(cfg.retry_base_delay, cfg.retry_max_delay, attempt),
                            range_retry_loop(r.net, start, end, attempt + 1, calls + 1))
                 ELSE [net |-> r.net, res |-> r.res, calls |-> calls + 1, slept |-> <<>>]
    IN  Answered(get_range(n, start, end))

get_range_with_retry(n, start, end) == range_retry_loop(n, start, end, 0, 0)

(***************************************************************************)
(* RangeBuffer                                                             *)
(***************************************************************************)
RangeBuffer_new == [data |-> <<>>, buffer_start |-> 0, buffer_end |-> 0]

\* set_data that leaves the window of the buffer empty
RangeBuffer_set_data_NoWindow(data, file_start, file_end) ==
    [data |-> data, buffer_start |-> file_start, buffer_end |-> file_start]

\* set_data that takes the end of the window as inclusive
RangeBuffer_set_data_EndInclusive(data, file_start, file_end) ==
    [data |-> data, buffer_start |-> file_start, buffer_end |-> file_end - 1]

RangeBuffer_set_data(data, file_start, file_end) ==
    [data |-> data, buffer_start |-> file_start, buffer_end |-> file_end]

\* contains that takes the end of the window as part of it
RangeBuffer_contains_EndInclusive(b, file_offset) ==
    file_offset >= b.buffer_start /\ file_offset <= b.buffer_end

RangeBuffer_contains(b, file_offset) ==
    file_offset >= b.buffer_start /\ file_offset < b.buffer_end

\* RangeBuffer::read that copies all that is available, whatever the
\* length of the destination
RangeBuffer_read_NoClamp(b, outLen, file_offset) ==
    IF ~RangeBuffer_contains(b, file_offset)
    THEN <<>>
    ELSE SubSeq(b.data, file_offset - b.buffer_start + 1, Len(b.data))

\* RangeBuffer::read that copies from the start of the buffer
RangeBuffer_read_FromStart(b, outLen, file_offset) ==
    IF ~RangeBuffer_contains(b, file_offset)
    THEN <<>>
    ELSE LET available == Len(b.data) - (file_offset - b.buffer_start)
         IN  SubSeq(b.data, 1, Min(available, outLen))

\* RangeBuffer::read: the bytes copied into a destination of outLen bytes
RangeBuffer_read(b, outLen, file_offset) ==
    IF ~RangeBuffer_contains(b, file_offset)
    THEN <<>>
    ELSE LET buffer_offset == file_offset - b.buffer_start
             available == Len(b.data) - buffer_offset
             to_copy == Min(available, outLen)
         IN  SubSeq(b.data, buffer_offset + 1, buffer_offset + to_copy)

RangeBuffer_clear == RangeBuffer_new

(***************************************************************************)
(* HttpFile                                                                *)
(***************************************************************************)
Url == "u"

\* HttpFile::new
HttpFile_new ==
    [buffer |-> RangeBuffer_new, file_offset |-> 0, eof_reached |-> FALSE,
     closed |-> FALSE, cached_size |-> None, prefetch |-> None,
     last_read_end |-> None]

\* PrefetchState: the range and the channel, which holds the worker's
\* result once the worker has sent it
PrefetchState(range_start, range_end) ==
    [range_start |-> range_start, range_end |-> range_end, rx |-> None]

(***************************************************************************)
(* A call in progress is a record w:                                       *)
(*   f       the session (HttpFile)                                        *)
(*   cache   the shared cache          net    the transport                *)
(*   orph    workers of this session whose receiver was dropped unread     *)
(*   gets    foreground get_range calls made by the call                   *)
(*   wgets   get_range calls made by a worker the call waited for          *)
(*   passes  passes through the while loop of read                         *)
(*   stalls  returns through one of the three no-progress guards           *)
(*   attempts  largest value refill_attempts took in the loop of read      *)
(*   heads   get_content_length calls made by the call                     *)
(*   spawned workers spawned by the call                                   *)
(*   err     the error the call failed with (None while it has not)        *)
(* Inside a function, each intermediate result is bound as the parameter   *)
(* of a local operator that continues from it, in the order of the code.   *)
(***************************************************************************)
Call(f, c, n, o) ==
    [f |-> f, cache |-> c, net |-> n, orph |-> o, gets |-> 0, wgets |-> 0,
     heads |-> 0, spawned |-> 0, passes |-> 0, stalls |-> 0, attempts |-> 0,
     err |-> None]

\* dropping the slot cancels its worker
DropPrefetch_Cancels(w) ==
    [w EXCEPT !.f.prefetch = None]

\* self.prefetch = None: the receiver is dropped; a worker that has not
\* sent yet keeps running detached
DropPrefetch(w) ==
    IF IsSome(w.f.prefetch) /\ Unwrap(w.f.prefetch).rx = None
    THEN [w EXCEPT !.f.prefetch = None, !.orph = @ + 1]
    ELSE [w EXCEPT !.f.prefetch = None]

\* HttpFile::try_cache_lookup
try_cache_lookup(w, range_start, range_end) ==
    RangeCache_get(w.cache, CacheKey(Url, range_start, range_end))

\* store_cache that keys the entry by the range the server returned
store_cache_ReturnedRange(w, range_start, range_end, data) ==
    [w EXCEPT !.cache = RangeCache_insert(w.cache,
                            CacheKey(Url, range_start, range_start + Len(data) - 1), data)]

\* store_cache that keys the entry by the chunk the range starts in
store_cache_Aligned(w, range_start, range_end, data) ==
    [w EXCEPT !.cache = RangeCache_insert(w.cache,
                            CacheKey(Url, range_start - (range_start % cfg.chunk_size),
                                     range_start - (range_start % cfg.chunk_size)
                                         + cfg.chunk_size - 1),
                            data)]

\* HttpFile::store_cache
store_cache(w, range_start, range_end, data) ==
    [w EXCEPT !.cache = RangeCache_insert(w.cache, CacheKey(Url, range_start, range_end), data)]

\* take_prefetch_if_match that never finds the slot matching
take_prefetch_if_match_Miss(w, range_start, range_end) == [w |-> w, res |-> None]

\* HttpFile::take_prefetch_if_match: res is None when the slot does not
\* match, else Some(result); recv blocks until the worker has sent
\* consumption that throws a failed worker result away, so that the refill
\* falls back on a foreground request
take_prefetch_if_match_RetriesErr(w, range_start, range_end) ==
    IF w.f.prefetch = None
    THEN [w |-> w, res |-> None]
    ELSE LET p == Unwrap(w.f.prefetch)
             Kept(x, res) == [w |-> x, res |-> IF IsOk(res) THEN Some(res) ELSE None]
             Received(r) ==
                 Kept([w EXCEPT !.f.prefetch = None, !.net = r.net, !.wgets = @ + r.calls],
                      r.res)
         IN  IF p.range_start = range_start /\ p.range_end = range_end
             THEN IF IsSome(p.rx)
                  THEN Kept([w EXCEPT !.f.prefetch = None], Unwrap(p.rx))
                  ELSE Received(get_range_with_retry(w.net, range_start, range_end))
             ELSE [w |-> w, res |-> None]

take_prefetch_if_match(w, range_start, range_end) ==
    IF w.f.prefetch = None
    THEN [w |-> w, res |-> None]
    ELSE LET p == Unwrap(w.f.prefetch)
             Received(r) ==
                 [w |-> [w EXCEPT !.f.prefetch = None, !.net = r.net,
                                  !.wgets = @ + r.calls],
                  res |-> Some(r.res)]
         IN  IF p.range_start = range_start /\ p.range_end = range_end
             THEN IF IsSome(p.rx)
                  THEN [w |-> [w EXCEPT !.f.prefetch = None], res |-> Some(Unwrap(p.rx))]
                  ELSE Received(get_range_with_retry(w.net, range_start, range_end))
             ELSE [w |-> w, res |-> None]

\* the EOF rule with a strict comparison against the known size
reached_eof_Strict(file_size, actual_end, actual_size, expected_size, old_buffer_end) ==
    IF IsSome(file_size)
    THEN actual_end > Unwrap(file_size)
    ELSE actual_size < expected_size /\ old_buffer_end > 0

\* the EOF rule that applies the rule for an unknown size to every size
reached_eof_IgnoresSize(file_size, actual_end, actual_size, expected_size, old_buffer_end) ==
    actual_size < expected_size /\ old_buffer_end > 0

\* the EOF rule that takes every short payload of an unknown size for EOF
reached_eof_AnyShort(file_size, actual_end, actual_size, expected_size, old_buffer_end) ==
    IF IsSome(file_size)
    THEN actual_end >= Unwrap(file_size)
    ELSE actual_size < expected_size

\* the EOF rule of refill_buffer
reached_eof(file_size, actual_end, actual_size, expected_size, old_buffer_end) ==
    IF IsSome(file_size)
    THEN actual_end >= Unwrap(file_size)
    ELSE actual_size < expected_size /\ old_buffer_end > 0

\* HttpFile::refill_buffer
refill_buffer(w) ==
    LET range_start == w.f.file_offset
        range_end == SatAdd(w.f.file_offset, SatSub(cfg.chunk_size, 1))
        old_buffer_end == w.f.buffer.buffer_end
        expected_size == range_end - range_start + 1
        \* the EOF flag and the buffer for the non-empty payload data
        SetData(x, file_size, data) ==
            [x EXCEPT
                !.f.eof_reached =
                    IF reached_eof(file_size, range_start + Len(data), Len(data),
                                   expected_size, old_buffer_end)
                    THEN TRUE ELSE @,
                !.f.buffer = RangeBuffer_set_data(data, range_start, range_start + Len(data))]
        \* the progress check after a network refill
        Progressed(x) ==
            IF x.f.buffer.buffer_end <= old_buffer_end /\ old_buffer_end > 0
            THEN [x EXCEPT !.err = Some("Protocol"), !.stalls = @ + 1]
            ELSE x
        \* the response of the prefetch worker or of the foreground GET
        Responded(x, file_size, response) ==
            IF ~IsOk(response)
            THEN [x EXCEPT !.err = Some(response.v)]
            ELSE IF Len(response.v) = 0
            THEN [x EXCEPT !.f.eof_reached = TRUE, !.f.buffer = RangeBuffer_clear]
            ELSE Progressed(SetData(store_cache(x, range_start, range_end, response.v),
                                    file_size, response.v))
        Foreground(x, file_size, g) ==
            Responded([x EXCEPT !.net = g.net, !.gets = @ + g.calls], file_size, g.res)
        Prefetched(t, file_size) ==
            IF IsSome(t.res)
            THEN Responded(t.w, file_size, Unwrap(t.res))
            ELSE Foreground(t.w, file_size,
                            get_range_with_retry(t.w.net, range_start, range_end))
        Looked(x, file_size, look) ==
            IF IsSome(look.res)
            THEN IF Len(Unwrap(look.res)) = 0
                 THEN [x EXCEPT !.cache = look.cache, !.f.eof_reached = TRUE,
                                !.f.buffer = RangeBuffer_clear]
                 ELSE SetData([x EXCEPT !.cache = look.cache], file_size, Unwrap(look.res))
            ELSE Prefetched(take_prefetch_if_match([x EXCEPT !.cache = look.cache],
                                                   range_start, range_end),
                            file_size)
        Sized(x, file_size) ==
            Looked(x, file_size, try_cache_lookup(x, range_start, range_end))
        Learned(x, file_size) ==
            Sized([x EXCEPT !.f.cached_size = Some(file_size)], file_size)
        Probed(probe) ==
            Learned([w EXCEPT !.net = probe.net, !.heads = @ + probe.calls],
                    IF IsOk(probe.res) THEN probe.res.v ELSE None)
    IN  IF w.f.cached_size = None
        THEN Probed(get_content_length_with_retry(w.net))
        ELSE Sized(w, Unwrap(w.f.cached_size))

\* maybe_prefetch_next that schedules however much of the buffer is unread
maybe_prefetch_next_NoTrigger(w) ==
    IF ~cfg.read_ahead \/ w.f.eof_reached
    THEN w
    ELSE LET buffer_end == w.f.buffer.buffer_end
             next_start == buffer_end
             next_end == SatAdd(buffer_end, SatSub(cfg.chunk_size, 1))
             Spawned(x) ==
                 [x EXCEPT !.f.prefetch = Some(PrefetchState(next_start, next_end)),
                           !.spawned = @ + 1]
             Looked(look) ==
                 IF IsSome(look.res)
                 THEN [w EXCEPT !.cache = look.cache]
                 ELSE Spawned(DropPrefetch([w EXCEPT !.cache = look.cache]))
         IN  IF buffer_end <= w.f.file_offset
             THEN w
             ELSE IF /\ IsSome(w.f.prefetch)
                     /\ Unwrap(w.f.prefetch).range_start = next_start
                     /\ Unwrap(w.f.prefetch).range_end = next_end
             THEN w
             ELSE Looked(try_cache_lookup(w, next_start, next_end))

\* HttpFile::maybe_prefetch_next
maybe_prefetch_next(w) ==
    IF ~cfg.read_ahead \/ w.f.eof_reached
    THEN w
    ELSE LET buffer_end == w.f.buffer.buffer_end
             remaining == buffer_end - w.f.file_offset
             next_start == buffer_end
             next_end == SatAdd(buffer_end, SatSub(cfg.chunk_size, 1))
             Spawned(x) ==
                 [x EXCEPT !.f.prefetch = Some(PrefetchState(next_start, next_end)),
                           !.spawned = @ + 1]
             Looked(look) ==
                 IF IsSome(look.res)
                 THEN [w EXCEPT !.cache = look.cache]
                 ELSE Spawned(DropPrefetch([w EXCEPT !.cache = look.cache]))
         IN  IF buffer_end <= w.f.file_offset
             THEN w
             ELSE IF remaining > cfg.read_ahead_trigger
             THEN w
             ELSE IF /\ IsSome(w.f.prefetch)
                     /\ Unwrap(w.f.prefetch).range_start = next_start
                     /\ Unwrap(w.f.prefetch).range_end = next_end
             THEN w
             ELSE Looked(try_cache_lookup(w, next_start, next_end))

\* a read that returns after the first chunk it has copied from
read_loop_OneChunk(w, bufLen, out, refill_attempts) ==
    LET Copied(p) ==
            LET bytes == RangeBuffer_read(p.f.buffer, bufLen - Len(out), p.f.file_offset)
            IN  [w |-> [p EXCEPT !.f.file_offset = @ + Len(bytes)], out |-> out \o bytes]
        Refilled(r) ==
            IF IsSome(r.err) THEN [w |-> r, out |-> out] ELSE Copied(r)
        Pass(p) ==
            IF RangeBuffer_contains(p.f.buffer, p.f.file_offset)
            THEN Copied(p)
            ELSE IF p.f.eof_reached
            THEN [w |-> p, out |-> out]
            ELSE Refilled(refill_buffer(p))
    IN  Pass([w EXCEPT !.passes = @ + 1])

\* the while loop of HttpFile::read; out is the bytes copied so far.
\* The result carries res = Ok(bytes) or Err(kind).
RECURSIVE read_loop(_, _, _, _)
read_loop(w, bufLen, out, refill_attempts) ==
    LET Counted(r) ==
            IF r.f.eof_reached /\ ~RangeBuffer_contains(r.f.buffer, r.f.file_offset)
            THEN [w |-> r, out |-> out]
            ELSE IF refill_attempts + 1 > MAX_REFILL_ATTEMPTS
            THEN [w |-> [r EXCEPT !.err = Some("Protocol"), !.stalls = @ + 1], out |-> out]
            ELSE read_loop(r, bufLen, out, refill_attempts + 1)
        Refilled(r) ==
            IF IsSome(r.err)
            THEN [w |-> r, out |-> out]
            ELSE Counted([r EXCEPT !.attempts = IF @ > refill_attempts THEN @ ELSE refill_attempts + 1])
        Advanced(w1, bytes) ==
            IF w1.f.eof_reached /\ ~RangeBuffer_contains(w1.f.buffer, w1.f.file_offset)
            THEN [w |-> w1, out |-> out \o bytes]
            ELSE read_loop(w1, bufLen, out \o bytes, 0)
        Copied(p, bytes) ==
            IF Len(bytes) = 0
            THEN [w |-> [p EXCEPT !.err = Some("Protocol"), !.stalls = @ + 1], out |-> out]
            ELSE Advanced([p EXCEPT !.f.file_offset = @ + Len(bytes)], bytes)
        Pass(p) ==
            IF ~RangeBuffer_contains(p.f.buffer, p.f.file_offset)
            THEN IF p.f.eof_reached
                 THEN [w |-> p, out |-> out]
                 ELSE Refilled(refill_buffer(p))
            ELSE Copied(p, RangeBuffer_read(p.f.buffer, bufLen - Len(out), p.f.file_offset))
    IN  IF Len(out) >= bufLen
        THEN [w |-> w, out |-> out]
        ELSE Pass([w EXCEPT !.passes = @ + 1])

\* HttpFile::read (File): w after the call and its result
\* read that moves last_read_end also when it returns an error
HttpFile_read_TracksOnErr(w, bufLen) ==
    LET start_offset == w.f.file_offset
        sequential == IF IsSome(w.f.last_read_end)
                      THEN start_offset = Unwrap(w.f.last_read_end)
                      ELSE TRUE
        Tracked(w1) == IF sequential THEN maybe_prefetch_next(w1) ELSE DropPrefetch(w1)
        Moved(l) == [l.w EXCEPT !.f.last_read_end = Some(start_offset + Len(l.out))]
        Looped(l) ==
            IF IsSome(l.w.err)
            THEN [w |-> IF Len(l.out) > 0 THEN Moved(l) ELSE l.w, res |-> Err(Unwrap(l.w.err))]
            ELSE IF Len(l.out) > 0
            THEN [w |-> Tracked(Moved(l)), res |-> Ok(l.out)]
            ELSE [w |-> l.w, res |-> Ok(l.out)]
    IN  IF bufLen = 0
        THEN [w |-> w, res |-> Ok(<<>>)]
        ELSE IF w.f.closed
        THEN [w |-> w, res |-> Err("FileClosed")]
        ELSE Looped(read_loop(w, bufLen, <<>>, 0))

HttpFile_read(w, bufLen) ==
    LET start_offset == w.f.file_offset
        sequential == IF IsSome(w.f.last_read_end)
                      THEN start_offset = Unwrap(w.f.last_read_end)
                      ELSE TRUE
        Tracked(w1) == IF sequential THEN maybe_prefetch_next(w1) ELSE DropPrefetch(w1)
        Looped(l) ==
            IF IsSome(l.w.err)
            THEN [w |-> l.w, res |-> Err(Unwrap(l.w.err))]
            ELSE IF Len(l.out) > 0
            THEN [w |-> Tracked([l.w EXCEPT
                                    !.f.last_read_end = Some(start_offset + Len(l.out))]),
                  res |-> Ok(l.out)]
            ELSE [w |-> l.w, res |-> Ok(l.out)]
    IN  IF bufLen = 0
        THEN [w |-> w, res |-> Ok(<<>>)]
        ELSE IF w.f.closed
        THEN [w |-> w, res |-> Err("FileClosed")]
        ELSE Looped(read_loop(w, bufLen, <<>>, 0))

\* seek that clamps the target to the content length, which it probes
HttpFile_seek_ClampToSize(w, pos) ==
    IF w.f.closed
    THEN [w |-> w, res |-> Err("FileClosed")]
    ELSE LET Clamped(x, p) ==
                 [w |-> [DropPrefetch([x EXCEPT !.f.buffer = RangeBuffer_clear]) EXCEPT
                            !.f.file_offset = p, !.f.eof_reached = FALSE,
                            !.f.last_read_end = None],
                  res |-> Ok(<<>>)]
             Probed(probe) ==
                 Clamped([w EXCEPT !.net = probe.net, !.heads = @ + probe.calls],
                         IF IsOk(probe.res) /\ IsSome(probe.res.v)
                         THEN Min(pos, Unwrap(probe.res.v)) ELSE pos)
         IN  Probed(get_content_length_with_retry(w.net))

\* seek that never clears the resident buffer
HttpFile_seek_KeepBuffer(w, pos) ==
    IF w.f.closed
    THEN [w |-> w, res |-> Err("FileClosed")]
    ELSE [w |-> [DropPrefetch(w) EXCEPT !.f.file_offset = pos, !.f.eof_reached = FALSE,
                                        !.f.last_read_end = None],
          res |-> Ok(<<>>)]

\* seek that does not check closed
HttpFile_seek_NoClosedCheck(w, pos) ==
    LET w1 == IF pos < w.f.file_offset \/ ~RangeBuffer_contains(w.f.buffer, pos)
              THEN [w EXCEPT !.f.buffer = RangeBuffer_clear]
              ELSE w
    IN  [w |-> [DropPrefetch(w1) EXCEPT !.f.file_offset = pos, !.f.eof_reached = FALSE,
                                         !.f.last_read_end = None],
         res |-> Ok(<<>>)]

\* seek that keeps the resident buffer whenever it contains the target
HttpFile_seek_KeepsBackward(w, pos) ==
    IF w.f.closed
    THEN [w |-> w, res |-> Err("FileClosed")]
    ELSE LET w1 == IF ~RangeBuffer_contains(w.f.buffer, pos)
                   THEN [w EXCEPT !.f.buffer = RangeBuffer_clear]
                   ELSE w
         IN  [w |-> [DropPrefetch(w1) EXCEPT !.f.file_offset = pos, !.f.eof_reached = FALSE,
                                              !.f.last_read_end = None],
              res |-> Ok(<<>>)]

\* seek that leaves last_read_end as the last read set it
HttpFile_seek_KeepsLastRead(w, pos) ==
    IF w.f.closed
    THEN [w |-> w, res |-> Err("FileClosed")]
    ELSE LET w1 == IF pos < w.f.file_offset \/ ~RangeBuffer_contains(w.f.buffer, pos)
                   THEN [w EXCEPT !.f.buffer = RangeBuffer_clear]
                   ELSE w
         IN  [w |-> [DropPrefetch(w1) EXCEPT !.f.file_offset = pos, !.f.eof_reached = FALSE],
              res |-> Ok(<<>>)]

\* HttpFile::seek (File)
HttpFile_seek(w, pos) ==
    IF w.f.closed
    THEN [w |-> w, res |-> Err("FileClosed")]
    ELSE LET w1 == IF pos < w.f.file_offset \/ ~RangeBuffer_contains(w.f.buffer, pos)
                   THEN [w EXCEPT !.f.buffer = RangeBuffer_clear]
                   ELSE w
             w2 == DropPrefetch(w1)
         IN  [w |-> [w2 EXCEPT !.f.file_offset = pos, !.f.eof_reached = FALSE,
                               !.f.last_read_end = None],
              res |-> Ok(<<>>)]

\* HttpFile::tell
HttpFile_tell(f) == f.file_offset

\* HttpFile::eof
HttpFile_eof(f) == f.eof_reached

\* size that probes on every call
HttpFile_size_Reprobe(w) ==
    IF w.f.closed
    THEN [w |-> w, res |-> None]
    ELSE LET Learned(x, size) ==
                 [w |-> [x EXCEPT !.f.cached_size = Some(size)], res |-> size]
             Probed(probe) ==
                 Learned([w EXCEPT !.net = probe.net, !.heads = @ + probe.calls],
                         IF IsOk(probe.res) THEN probe.res.v ELSE None)
         IN  Probed(get_content_length_with_retry(w.net))

\* size that memoizes only the answer of a probe that succeeded
HttpFile_size_ForgetsErr(w) ==
    IF w.f.closed
    THEN [w |-> w, res |-> None]
    ELSE IF w.f.cached_size = None
    THEN LET Probed(x, probe) ==
                 IF IsOk(probe.res)
                 THEN [w |-> [x EXCEPT !.f.cached_size = Some(probe.res.v)],
                       res |-> probe.res.v]
                 ELSE [w |-> x, res |-> None]
             Asked(probe) ==
                 Probed([w EXCEPT !.net = probe.net, !.heads = @ + probe.calls], probe)
         IN  Asked(get_content_length_with_retry(w.net))
    ELSE [w |-> w, res |-> Unwrap(w.f.cached_size)]

\* HttpFile::size: the result is Option<u64>
HttpFile_size(w) ==
    IF w.f.closed
    THEN [w |-> w, res |-> None]
    ELSE IF w.f.cached_size = None
    THEN LET Learned(x, size) ==
                 [w |-> [x EXCEPT !.f.cached_size = Some(size)], res |-> size]
             Probed(probe) ==
                 Learned([w EXCEPT !.net = probe.net, !.heads = @ + probe.calls],
                         IF IsOk(probe.res) THEN probe.res.v ELSE None)
         IN  Probed(get_content_length_with_retry(w.net))
    ELSE [w |-> w, res |-> Unwrap(w.f.cached_size)]

\* close that leaves the prefetch slot in place
HttpFile_close_KeepsPrefetch(w) ==
    IF ~w.f.closed
    THEN [w EXCEPT !.f.buffer = RangeBuffer_clear, !.f.closed = TRUE]
    ELSE w

\* HttpFile::close
HttpFile_close(w) ==
    IF ~w.f.closed
    THEN LET w1 == DropPrefetch([w EXCEPT !.f.buffer = RangeBuffer_clear])
         IN  [w1 EXCEPT !.f.closed = TRUE]
    ELSE w

(***************************************************************************)
(* State.                                                                  *)
(*   cfg      HttpConfig of the filesystem (immutable)                     *)
(*   resLen   length of the resource at the origin                         *)
(*   net      behaviour of the transport                                   *)
(*   cache    the filesystem's shared RangeCache                           *)
(*   sess     the file sessions opened from the filesystem                 *)
(*   orphans  per session, detached prefetch workers still running         *)
(*   hist     per session, whether it has only been read since it was      *)
(*            opened, and the bytes those reads returned, in order         *)
(*   last     the last call made and its outcome                           *)
(***************************************************************************)
HttpConfig(chunk_size, read_ahead, read_ahead_trigger, cache_max_entries, cache_max_bytes, retry_max_attempts) ==
    [chunk_size |-> chunk_size, read_ahead |-> read_ahead,
     read_ahead_trigger |-> read_ahead_trigger,
     cache_max_entries |-> cache_max_entries,
     cache_max_bytes |-> cache_max_bytes,
     retry_max_attempts |-> retry_max_attempts,
     retry_base_delay |-> 1, retry_max_delay |-> 40]

\* (cache_max_entries, cache_max_bytes) pairs drawn for the sessions:
\* caching disabled, a byte bound that two full chunks exceed, ample room
CacheBounds == {<<0, 4>>, <<2, MaxChunk + 1>>, <<3, 4 * MaxChunk>>}

FaithfulNet(headKnown) ==
    [headKnown |-> headKnown, headFails |-> 0, headProto |-> FALSE,
     rangeFails |-> 0, rangeProto |-> FALSE, mode |-> "exact",
     status |-> 206, content_range |-> None]

\* the transport calls a call made and the workers it spawned
NoCounts == [gets |-> 0, wgets |-> 0, heads |-> 0, spawned |-> 0]

Counts(w) == [gets |-> w.gets, wgets |-> w.wgets, heads |-> w.heads, spawned |-> w.spawned]

\* last: the call op(arg) on session s, its result and, in n, what it cost.
\* For close, arg is 1 when the session was already closed; for insert, arg
\* is the key and the payload and the result counts the entries the insert
\* evicted.
NoCall == [op |-> "none", s |-> 0, arg |-> 0, res |-> Ok(<<>>), n |-> NoCounts]

Record(op, s, arg, res) == [op |-> op, s |-> s, arg |-> arg, res |-> res, n |-> NoCounts]

NoHist == [seq |-> TRUE, got |-> <<>>]

\* HttpFileSystemBuilder::build and HttpFileSystem::open, for the
\* configuration c, a resource of n bytes and the transport t
Setup(c, n, t) ==
    /\ cfg = c
    /\ resLen = n
    /\ net = t
    /\ cache = RangeCache_new(c.cache_max_entries, c.cache_max_bytes)
    /\ sess = [s \in Sessions |-> HttpFile_new]
    /\ orphans = [s \in Sessions |-> 0]
    /\ hist = [s \in Sessions |-> NoHist]
    /\ last = NoCall

\* a transport that serves the resource faithfully and never fails
Init ==
    \E cs \in 1..MaxChunk, ra \in BOOLEAN, tr \in 1..MaxChunk, cb \in CacheBounds,
       n \in 0..MaxLen, hk \in BOOLEAN :
        /\ ~ra => tr = 1
        /\ Setup(HttpConfig(cs, ra, tr, cb[1], cb[2], 1), n, FaithfulNet(hk))

\* the state after a call on session s ended in w
Commit(s, w) ==
    /\ w.orph <= MaxOrphans
    /\ sess' = [sess EXCEPT ![s] = w.f]
    /\ orphans' = [orphans EXCEPT ![s] = w.orph]
    /\ cache' = w.cache
    /\ net' = w.net
    /\ UNCHANGED <<cfg, resLen>>

Start(s) == Call(sess[s], cache, net, orphans[s])

Read(s, bufLen) ==
    \E r \in {HttpFile_read(Start(s), bufLen)} :
        /\ Commit(s, r.w)
        /\ hist' = IF IsOk(r.res) /\ hist[s].seq
                   THEN [hist EXCEPT ![s].got = @ \o r.res.v]
                   ELSE hist
        /\ last' = [Record("read", s, bufLen, r.res) EXCEPT !.n = Counts(r.w)]

Seek(s, pos) ==
    \E r \in {HttpFile_seek(Start(s), pos)} :
        /\ Commit(s, r.w)
        /\ hist' = IF IsOk(r.res)
                   THEN [hist EXCEPT ![s] = [seq |-> FALSE, got |-> <<>>]]
                   ELSE hist
        /\ last' = [Record("seek", s, pos, r.res) EXCEPT !.n = Counts(r.w)]

Tell(s) ==
    /\ Commit(s, Start(s))
    /\ UNCHANGED hist
    /\ last' = Record("tell", s, 0, Ok(HttpFile_tell(sess[s])))

Eof(s) ==
    /\ Commit(s, Start(s))
    /\ UNCHANGED hist
    /\ last' = Record("eof", s, 0, Ok(HttpFile_eof(sess[s])))

Size(s) ==
    \E r \in {HttpFile_size(Start(s))} :
        /\ Commit(s, r.w)
        /\ UNCHANGED hist
        /\ last' = [Record("size", s, 0, Ok(r.res)) EXCEPT !.n = Counts(r.w)]

Close(s) ==
    /\ Commit(s, HttpFile_close(Start(s)))
    /\ UNCHANGED hist
    /\ last' = Record("close", s, IF sess[s].closed THEN 1 ELSE 0, Ok(<<>>))

\* the session is dropped (Drop for HttpFile closes it) and
\* HttpFileSystem::open puts a new one in its place
Reopen(s) ==
    /\ Commit(s, [HttpFile_close(Start(s)) EXCEPT !.f = HttpFile_new])
    /\ hist' = [hist EXCEPT ![s] = NoHist]
    /\ last' = Record("open", s, 0, Ok(<<>>))

\* the prefetch worker of session s finishes its retrying GET and sends
\* the result into the channel of the slot
WorkerFinish(s) ==
    /\ IsSome(sess[s].prefetch)
    /\ Unwrap(sess[s].prefetch).rx = None
    /\ \E p \in {Unwrap(sess[s].prefetch)} :
           \E r \in {get_range_with_retry(net, p.range_start, p.range_end)} :
               /\ sess' = [sess EXCEPT ![s].prefetch = Some([p EXCEPT !.rx = Some(r.res)])]
               /\ net' = r.net
    /\ UNCHANGED <<cfg, resLen, cache, orphans, hist, last>>

\* a detached worker of session s finishes its retrying GET; its result
\* is discarded.  Which calls of the transport fail does not depend on the
\* range asked for, so the range of the detached worker is not kept.
OrphanFinish(s) ==
    /\ orphans[s] > 0
    /\ orphans' = [orphans EXCEPT ![s] = @ - 1]
    /\ net' = get_range_with_retry(net, 0, 0).net
    /\ UNCHANGED <<cfg, resLen, cache, sess, hist, last>>

SessionStep(s) ==
    \/ \E bufLen \in 0..MaxBuf : Read(s, bufLen)
    \/ \E pos \in 0..MaxPos : Seek(s, pos)
    \/ Tell(s)
    \/ Eof(s)
    \/ Size(s)
    \/ Close(s)
    \/ Reopen(s)
    \/ WorkerFinish(s)
    \/ OrphanFinish(s)

Next == \E s \in Sessions : SessionStep(s)

Spec == Init /\ [][Next]_vars

(***************************************************************************)
(* The same sessions over a transport that misbehaves.  For the whole run  *)
(* the origin answers a range in one of Modes (exactly, one byte at a      *)
(* time, never any byte, one byte too many); an origin that answers        *)
(* exactly also queues faults, one at a time: a run of Network failures    *)
(* or one Protocol error, on GET or on HEAD.                               *)
(***************************************************************************)
InitAny ==
    \E cs \in 1..MaxChunk, ra \in BOOLEAN, hk \in BOOLEAN, m \in Modes :
        Setup(HttpConfig(cs, ra, 1, 1, MaxChunk + 1, 1), MaxLen,
              [FaithfulNet(hk) EXCEPT !.mode = m])

NoFault(n) ==
    n.headFails = 0 /\ ~n.headProto /\ n.rangeFails = 0 /\ ~n.rangeProto

Faults ==
    {[f EXCEPT !.rangeFails = k] : k \in 1..MaxFails, f \in {FaithfulNet(TRUE)}}
    \cup {[f EXCEPT !.headFails = k] : k \in 1..MaxFails, f \in {FaithfulNet(TRUE)}}
    \cup {[FaithfulNet(TRUE) EXCEPT !.rangeProto = TRUE],
          [FaithfulNet(TRUE) EXCEPT !.headProto = TRUE]}

Inject ==
    /\ NoFault(net)
    /\ net.mode = "exact"
    /\ \E f \in Faults : net' = [f EXCEPT !.headKnown = net.headKnown]
    /\ UNCHANGED <<cfg, resLen, cache, sess, orphans, hist, last>>

NextAny ==
    \/ \E s \in Sessions : SessionStep(s)
    \/ Inject

SpecAny == InitAny /\ [][NextAny]_vars

(***************************************************************************)
(* The same sessions with every retry budget up to MaxRetries, over an     *)
(* origin that answers exactly and queues the faults above; the cache is   *)
(* disabled, so that every refill goes to the transport or the slot.       *)
(***************************************************************************)
InitRetry ==
    \E cs \in 1..MaxChunk, ra \in BOOLEAN, m \in 0..MaxRetries, hk \in BOOLEAN :
        Setup(HttpConfig(cs, ra, 1, 0, 0, m), MaxLen, FaithfulNet(hk))

SpecRetry == InitRetry /\ [][NextAny]_vars

(***************************************************************************)
(* The calls that go through a retry loop (read, size, the prefetch        *)
(* worker) with every retry budget up to MaxRetries and backoff delays     *)
(* drawn as (retry_base_delay, retry_max_delay) from Delays: the           *)
(* defaults, no delay, a base above the maximum, a base whose double is    *)
(* past DurationMax, and a maximum of DurationMax.                         *)
(***************************************************************************)
Delays ==
    {<<1, 40>>, <<0, 0>>, <<3, 2>>, <<4, DurationMax>>,
     <<(DurationMax + 1) \div 2, 5>>, <<(DurationMax + 1) \div 4, DurationMax>>}

InitDelay ==
    \E m \in 0..MaxRetries, d \in Delays :
        Setup([HttpConfig(MaxChunk, TRUE, 1, 0, 0, m) EXCEPT
                  !.retry_base_delay = d[1], !.retry_max_delay = d[2]],
              MaxLen, FaithfulNet(TRUE))

NextDelay ==
    \/ \E s \in Sessions, bufLen \in 0..MaxBuf : Read(s, bufLen)
    \/ \E s \in Sessions : Size(s)
    \/ \E s \in Sessions : WorkerFinish(s)
    \/ \E s \in Sessions : Reopen(s)
    \/ Inject

SpecDelay == InitDelay /\ [][NextDelay]_vars

(***************************************************************************)
(* The same sessions over an origin that answers every GET with one of     *)
(* Statuses and with one of ContentRanges: no Content-Range, one that      *)
(* starts where the request does, one that starts a byte later.            *)
(***************************************************************************)
Statuses == {206, 200, 416, 404, 503}

ContentRanges == {None, Some(0), Some(1)}

InitStatus ==
    \E ra \in BOOLEAN, m \in 0..1, hk \in BOOLEAN, st \in Statuses, cr \in ContentRanges :
        Setup(HttpConfig(MaxChunk, ra, 1, 1, MaxChunk + 1, m), MaxLen,
              [FaithfulNet(hk) EXCEPT !.status = st, !.content_range = cr])

SpecStatus == InitStatus /\ [][Next]_vars

(***************************************************************************)
(* The same sessions with a peer: another session on the same URL, opened  *)
(* on the same filesystem, that seeks, reads and is dropped.  What the     *)
(* sessions of a filesystem share is its cache and its transport, so the   *)
(* peer is kept by what it leaves in them.                                 *)
(***************************************************************************)
InitShared ==
    \E cs \in 1..MaxChunk, ra \in BOOLEAN, n \in 0..MaxLen, hk \in BOOLEAN :
        Setup(HttpConfig(cs, ra, 1, 2, 2 * MaxChunk, 1), n, FaithfulNet(hk))

PeerRead(pos, bufLen) ==
    \E r \in {HttpFile_read(HttpFile_seek(Call(HttpFile_new, cache, net, 0), pos).w, bufLen)} :
        /\ cache' = r.w.cache
        /\ net' = r.w.net
        /\ UNCHANGED <<cfg, resLen, sess, orphans, hist, last>>

NextShared ==
    \/ \E s \in Sessions : SessionStep(s)
    \/ \E pos \in 0..MaxPos, bufLen \in 1..MaxBuf : PeerRead(pos, bufLen)

SpecShared == InitShared /\ [][NextShared]_vars

\* Two files of one filesystem with read-ahead and the shared cache, over a
\* transport that may fail: the session under observation, and a peer whose
\* reads insert into the cache and use up failures of the transport.
InitSurface ==
    \E m \in 0..1 :
        Setup(HttpConfig(MaxChunk, TRUE, 1, 1, MaxChunk, m), MaxLen, FaithfulNet(TRUE))

NextSurface ==
    \/ \E s \in Sessions, bufLen \in 1..MaxBuf : Read(s, bufLen)
    \/ \E s \in Sessions, pos \in 0..MaxPos : Seek(s, pos)
    \/ \E s \in Sessions : WorkerFinish(s)
    \/ \E s \in Sessions : OrphanFinish(s)
    \/ \E pos \in 0..MaxPos : PeerRead(pos, 1)
    \/ Inject

SpecSurface == InitSurface /\ [][NextSurface]_vars

(***************************************************************************)
(* core::create and core::open.  A URL is the sequence of its characters.  *)
(***************************************************************************)
HttpScheme == <<"h", "t", "t", "p", ":", "/", "/">>

HttpsScheme == <<"h", "t", "t", "p", "s", ":", "/", "/">>

\* str::starts_with
starts_with(str, prefix) ==
    Len(str) >= Len(prefix) /\ SubSeq(str, 1, Len(prefix)) = prefix

\* core::create: the filesystem, or the error
create(url) ==
    IF starts_with(url, HttpScheme) \/ starts_with(url, HttpsScheme)
    THEN Ok("HttpFileSystem")
    ELSE Err("UnsupportedProtocol")

\* HttpFileSystem::open (FileSystem): the session, or the error
HttpFileSystem_open(url, mode) ==
    IF mode # "r" /\ mode # "rb"
    THEN Err("Io:InvalidInput")
    ELSE Ok(HttpFile_new)

\* open that looks at the mode before the URL
open_ModeFirst(url, mode) ==
    IF mode # "r" /\ mode # "rb"
    THEN Err("Io:InvalidInput")
    ELSE IF IsOk(create(url)) THEN Ok(HttpFile_new) ELSE create(url)

\* core::open
open(url, mode) ==
    LET Created(fs) == IF IsOk(fs) THEN HttpFileSystem_open(url, mode) ELSE fs
    IN  Created(create(url))

TestUrls ==
    {HttpScheme \o <<"a">>, HttpsScheme \o <<"a">>, HttpScheme,
     <<"f", "t", "p", ":", "/", "/", "a">>, <<"h", "t", "t", "p", ":", "/">>,
     <<"H", "T", "T", "P", ":", "/", "/", "a">>, <<"a">> \o HttpScheme, <<>>}

TestModes == {"r", "rb", "w", "rw", "R", ""}

\* the application calls core::open(url, mode) and, when it succeeds, puts
\* the session in the place of session s, which it drops
OpenUrl(s, url, mode) ==
    \E r \in {open(url, mode)} :
        /\ Commit(s, IF IsOk(r)
                     THEN [HttpFile_close(Start(s)) EXCEPT !.f = r.v]
                     ELSE Start(s))
        /\ hist' = IF IsOk(r) THEN [hist EXCEPT ![s] = NoHist] ELSE hist
        /\ last' = Record("open_url", s, [url |-> url, mode |-> mode],
                          IF IsOk(r) THEN Ok(<<>>) ELSE r)

InitOpen ==
    \E cs \in 1..MaxChunk, n \in 0..MaxLen, hk \in BOOLEAN :
        Setup(HttpConfig(cs, FALSE, 1, 2, MaxChunk + 1, 1), n, FaithfulNet(hk))

NextOpen ==
    \E s \in Sessions :
        \/ \E url \in TestUrls, mode \in TestModes : OpenUrl(s, url, mode)
        \/ \E bufLen \in 0..MaxBuf : Read(s, bufLen)
        \/ Tell(s)
        \/ Eof(s)

SpecOpen == InitOpen /\ [][NextOpen]_vars

(***************************************************************************)
(* The cache driven directly: any sequence of get and insert, as issued    *)
(* by any number of sessions, each call atomic under the mutex.            *)
(***************************************************************************)
TestKeys == {CacheKey(Url, 2 * i, 2 * i + 1) : i \in 0..(MaxKeys - 1)}

Payload(n, tag) == [i \in 1..n |-> tag]

Payloads == {Payload(n, tag) : n \in 0..MaxPayload, tag \in {1, 2}}

InitCache ==
    \E me \in 0..2, mb \in {0, 2, MaxPayload, 2 * MaxPayload} :
        Setup(HttpConfig(1, FALSE, 1, me, mb, 0), 0, FaithfulNet(TRUE))

CacheGet(key) ==
    \E r \in {RangeCache_get(cache, key)} :
        /\ cache' = r.cache
        /\ last' = Record("get", 0, key, Ok(r.res))
        /\ UNCHANGED <<cfg, resLen, net, sess, orphans, hist>>

CacheInsert(key, data) ==
    /\ cache' = RangeCache_insert(cache, key, data)
    /\ last' = Record("insert", 0, [key |-> key, data |-> data],
                      Ok(Cardinality(DOMAIN cache.map \cup {key})
                         - Cardinality(DOMAIN cache'.map)))
    /\ UNCHANGED <<cfg, resLen, net, sess, orphans, hist>>

NextCache ==
    \/ \E key \in TestKeys : CacheGet(key)
    \/ \E key \in TestKeys, data \in Payloads : CacheInsert(key, data)

SpecCache == InitCache /\ [][NextCache]_vars

(***************************************************************************)
(* Properties.                                                             *)
(***************************************************************************)
Open(s) == ~sess[s].closed

\* the session as HttpFileSystem::open returns it, with a cache of its own
Fresh == Call(HttpFile_new, RangeCache_new(cfg.cache_max_entries, cfg.cache_max_bytes), net, 0)

\* the offset at which the last call, a successful read, started
ReadStart == sess[last.s].file_offset - Len(last.res.v)

OkRead == last.op = "read" /\ IsOk(last.res) /\ Open(last.s)

\* C1: a read on an open session that returns Ok(n) has 0 <= n <= buf.len(),
\* and n = 0 only when buf is empty or eof() is true on return, whatever
\* the transport did.
C1_ReadCount ==
    OkRead =>
        /\ Len(last.res.v) <= last.arg
        /\ Len(last.res.v) = 0 => (last.arg = 0 \/ HttpFile_eof(sess[last.s]))

\* a read of a non-empty buffer returned 0 bytes from an origin that does
\* not answer ranges exactly
C1_Witness ==
    /\ OkRead /\ last.arg > 0 /\ Len(last.res.v) = 0
    /\ net.mode = "one"
    /\ HttpFile_eof(sess[last.s])

\* C2: in every state of an open session where eof() is true, a read with a
\* non-empty buffer returns Ok(0).
C2_EofMeansNoBytes ==
    \A s \in Sessions, bufLen \in 1..MaxBuf :
        (Open(s) /\ HttpFile_eof(sess[s])) =>
            LET r == HttpFile_read(Start(s), bufLen).res
            IN  IsOk(r) /\ Len(r.v) = 0

\* C3: while a session opened at offset 0 has only been read, the bytes its
\* reads returned, concatenated, are the bytes [0, total) of the resource.
C3_SequentialBytes ==
    \A s \in Sessions :
        hist[s].seq => hist[s].got = ResourceRange(0, Len(hist[s].got), resLen)

\* reads alone delivered the whole resource in several chunks, with
\* read-ahead and the cache on
C3_Witness ==
    /\ last.op = "read" /\ IsOk(last.res)
    /\ hist[last.s].seq
    /\ Len(hist[last.s].got) = MaxLen
    /\ Len(last.res.v) < MaxLen
    /\ cfg.chunk_size < MaxLen
    /\ cfg.read_ahead
    /\ cache.lru # <<>>

\* C4: whatever reads and seeks came before, once seek(p) has returned a
\* read(k) returns the count and the bytes that seek(p); read(k) returns on
\* a freshly opened session with a fresh cache.
C4_SeekReadFresh ==
    (last.op = "seek" /\ IsOk(last.res)) =>
        \A bufLen \in 0..MaxBuf :
            LET used == HttpFile_read(Start(last.s), bufLen).res
                fresh == HttpFile_read(HttpFile_seek(Fresh, last.arg).w, bufLen).res
            IN  IsOk(used) /\ IsOk(fresh) /\ used.v = fresh.v

\* a forward seek has landed inside the resident buffer of a session whose
\* content length is unknown, before the last chunk of the resource
C4_Witness ==
    /\ last.op = "seek" /\ IsOk(last.res)
    /\ sess[last.s].cached_size = Some(None)
    /\ sess[last.s].buffer.buffer_start < last.arg
    /\ last.arg < sess[last.s].buffer.buffer_end
    /\ sess[last.s].buffer.buffer_end < resLen

\* the last call, a successful read on a resource of known length, started
\* at offset 0 or short of the end, with a non-empty buffer at least as
\* long as what was left
ReadToEnd ==
    /\ OkRead /\ net.headKnown
    /\ ReadStart = 0 \/ ReadStart < resLen
    /\ last.arg >= 1 /\ last.arg >= resLen - ReadStart

AfterClose == last.op \in {"read", "seek", "tell", "eof", "size"} /\ ~Open(last.s)

\* C6 as stated: on a closed session every operation other than close
\* fails with FileClosed.
C6_Original ==
    AfterClose => (~IsOk(last.res) /\ last.res.v = "FileClosed")

\* C6, amended: on a closed session seek and read with a non-empty buffer
\* fail with FileClosed; read with an empty buffer returns Ok(0), size
\* returns None, tell returns the offset and eof the flag.
C6_AfterClose ==
    AfterClose =>
        CASE last.op = "seek" -> ~IsOk(last.res) /\ last.res.v = "FileClosed"
          [] last.op = "read" /\ last.arg > 0 ->
                 ~IsOk(last.res) /\ last.res.v = "FileClosed"
          [] last.op = "read" /\ last.arg = 0 -> IsOk(last.res) /\ last.res.v = <<>>
          [] last.op = "size" -> IsOk(last.res) /\ last.res.v = None
          [] last.op = "tell" -> IsOk(last.res) /\ last.res.v = sess[last.s].file_offset
          [] last.op = "eof" -> IsOk(last.res) /\ last.res.v = sess[last.s].eof_reached

\* a seek on a session closed in the middle of the resource has failed
C6_Witness ==
    /\ AfterClose /\ last.op = "seek"
    /\ ~IsOk(last.res)
    /\ sess[last.s].file_offset > 0

\* C7: a close leaves the session closed with an empty buffer, an empty
\* prefetch slot and the same offset; a close of a closed session changes
\* no field, makes no transport call and leaves the cache alone.
C7_CloseIdempotent ==
    \A s \in Sessions :
        LET once == HttpFile_close(Start(s))
        IN  /\ once.f.closed
            /\ once.f.buffer = RangeBuffer_new
            /\ once.f.prefetch = None
            /\ once.f.file_offset = sess[s].file_offset
            /\ once.cache = cache /\ once.net = net
            /\ once.gets = 0 /\ once.wgets = 0 /\ once.heads = 0 /\ once.spawned = 0
            /\ HttpFile_close(once) = once
            /\ ~Open(s) => once = Start(s)

\* a session that had read into the resource has been closed a second time
C7_Witness ==
    /\ last.op = "close" /\ last.arg = 1
    /\ ~Open(last.s)
    /\ sess[last.s].file_offset > 0
    /\ cache.lru # <<>>

RECURSIVE SumSizes(_, _)
SumSizes(map, keys) ==
    IF keys = {} THEN 0
    ELSE LET k == CHOOSE x \in keys : TRUE
         IN  map[k].size + SumSizes(map, keys \ {k})

\* C8: the cache holds at most max_entries entries, current_bytes is the
\* sum of the stored sizes and at most max_bytes, and the LRU list holds
\* exactly the keys of the map, each once.
C8_CacheBounds ==
    /\ Cardinality(DOMAIN cache.map) <= cache.max_entries
    /\ cache.current_bytes = SumSizes(cache.map, DOMAIN cache.map)
    /\ cache.current_bytes <= cache.max_bytes
    /\ \A k \in DOMAIN cache.map : cache.map[k].size = Len(cache.map[k].data)
    /\ {cache.lru[i] : i \in 1..Len(cache.lru)} = DOMAIN cache.map
    /\ \A i, j \in 1..Len(cache.lru) : cache.lru[i] = cache.lru[j] => i = j

\* an insert evicted an entry and left the cache full on both bounds
C8_Witness ==
    /\ last.op = "insert" /\ last.res.v > 0
    /\ Len(cache.lru) = cache.max_entries
    /\ cache.current_bytes = cache.max_bytes
    /\ Len(cache.lru) > 1

CacheOn == cache.max_entries # 0 /\ cache.max_bytes # 0

\* C9: with caching enabled, after insert(k, B) with |B| <= max_bytes a
\* get(k) returns B; so does it when the insert replaces the payload that
\* the key holds, and the replaced size is taken off current_bytes.
C9_InsertGet ==
    /\ (last.op = "insert" /\ CacheOn /\ Len(last.arg.data) <= cache.max_bytes) =>
           RangeCache_get(cache, last.arg.key).res = Some(last.arg.data)
    /\ \A k \in DOMAIN cache.map, B \in Payloads :
           (CacheOn /\ Len(B) <= cache.max_bytes) =>
               LET c == RangeCache_insert(cache, k, B)
               IN  /\ RangeCache_get(c, k).res = Some(B)
                   /\ c.current_bytes = SumSizes(c.map, DOMAIN c.map)

\* an insert has put a payload under a key while another key was held
C9_Witness ==
    /\ last.op = "insert" /\ CacheOn
    /\ Len(last.arg.data) > 1
    /\ Len(cache.lru) > 1
    /\ cache.lru[1] = last.arg.key
    /\ cache.map[last.arg.key].data = last.arg.data

\* the keys of seq other than k, in order
Without(seq, k) == LET Keep(x) == x # k IN SelectSeq(seq, Keep)

\* the size an entry of the list has after insert(k, B)
SizeAfter(c, k, B, x) == IF x = k THEN Len(B) ELSE c.map[x].size

RECURSIVE SumList(_, _, _, _)
SumList(c, k, B, seq) ==
    IF seq = <<>> THEN 0
    ELSE SizeAfter(c, k, B, Head(seq)) + SumList(c, k, B, Tail(seq))

Fits(c, k, B, seq) ==
    Len(seq) <= c.max_entries /\ SumList(c, k, B, seq) <= c.max_bytes

\* what one call does to the LRU order
C10_Step ==
    /\ last'.op = "get" =>
           IF CacheOn /\ last'.arg \in DOMAIN cache.map
           THEN /\ cache'.lru = <<last'.arg>> \o Without(cache.lru, last'.arg)
                /\ cache'.map = cache.map
           ELSE cache' = cache
    /\ (last'.op = "insert" /\ CacheOn /\ Len(last'.arg.data) <= cache.max_bytes) =>
           LET k == last'.arg.key
               B == last'.arg.data
               full == <<k>> \o Without(cache.lru, k)
               kept == Len(cache'.lru)
           IN  /\ kept <= Len(full)
               /\ cache'.lru = SubSeq(full, 1, kept)
               /\ DOMAIN cache'.map = {full[i] : i \in 1..kept}
               /\ Fits(cache, k, B, cache'.lru)
               /\ kept < Len(full) => ~Fits(cache, k, B, SubSeq(full, 1, kept + 1))

\* with max_entries = 2 and payloads that fit together, inserting k1, k2,
\* k3 evicts k1, and evicts k2 instead when get(k1) runs before insert(k3)
C10_Scenario ==
    \A k1, k2, k3 \in TestKeys :
        (/\ cache.max_entries = 2 /\ cache.max_bytes >= 2
         /\ k1 # k2 /\ k1 # k3 /\ k2 # k3) =>
            LET B == Payload(1, 1)
                c2 == RangeCache_insert(RangeCache_insert(cache, k1, B), k2, B)
                c3 == RangeCache_insert(c2, k3, B)
                g3 == RangeCache_insert(RangeCache_get(c2, k1).cache, k3, B)
            IN  /\ DOMAIN c3.map = {k2, k3}
                /\ DOMAIN g3.map = {k1, k3}

\* C10: a get hit and an insert make the key most recently used, a get
\* miss leaves the order alone, and an insert evicts from the least
\* recently used end exactly as many entries as it takes for both bounds
\* to hold.
C10_LRUOrder == [][C10_Step]_vars /\ []C10_Scenario

\* one insert has evicted two entries
C10_Witness ==
    /\ last.op = "insert" /\ last.res.v = 2
    /\ cache.lru = <<last.arg.key>>

\* the last call, a successful read without read-ahead, made one
\* get_range call, for the chunk requested at the offset it started from,
\* and the payload fits the enabled cache
FetchedChunk ==
    /\ OkRead /\ ~cfg.read_ahead /\ CacheOn
    /\ last.n.gets = 1
    /\ sess[last.s].buffer.buffer_start = ReadStart
    /\ Len(sess[last.s].buffer.data) > 0
    /\ Len(sess[last.s].buffer.data) <= cfg.cache_max_bytes

\* C11: with read-ahead off and the cache on, once a read has fetched the
\* chunk requested at offset s, seek(s) and a read of the same bytes return
\* them again with no get_range call, short reply or not.
C11_CacheHit ==
    FetchedChunk =>
        LET again == HttpFile_read(HttpFile_seek(Start(last.s), ReadStart).w,
                                   Len(last.res.v))
        IN  /\ IsOk(again.res)
            /\ again.res.v = last.res.v
            /\ again.w.gets = 0 /\ again.w.wgets = 0
            /\ again.w.net = net

\* the chunk fetched was the short last chunk of the resource, asked for
\* beyond its end
C11_Witness ==
    /\ FetchedChunk
    /\ ReadStart > 0
    /\ Len(last.res.v) > 0
    /\ Len(sess[last.s].buffer.data) < cfg.chunk_size

\* the range maybe_prefetch_next asks for behind the resident buffer of f
NextStart(f) == f.buffer.buffer_end

NextEnd(f) == SatAdd(f.buffer.buffer_end, SatSub(cfg.chunk_size, 1))

\* the prefetch slot of f holds the range behind its resident buffer
SlotAhead(f) ==
    /\ IsSome(f.prefetch)
    /\ Unwrap(f.prefetch).range_start = NextStart(f)
    /\ Unwrap(f.prefetch).range_end = NextEnd(f)

\* bytes of the resident buffer of f that are still unread
Remaining(f) == f.buffer.buffer_end - f.file_offset

\* session s reads sequentially, inside its resident buffer, with the
\* range behind the buffer in its prefetch slot
Prefetching(s) ==
    /\ Open(s) /\ SlotAhead(sess[s])
    /\ sess[s].last_read_end = Some(sess[s].file_offset)
    /\ RangeBuffer_contains(sess[s].buffer, sess[s].file_offset)

\* E4 scaled to the chunk size c and the trigger t of the configuration:
\* on a new session, read(a) leaves 0 < c - a <= t and read(b) crosses into
\* the next chunk only
C12_E4 ==
    \A a, b \in 1..MaxBuf :
        (/\ cfg.read_ahead /\ resLen > cfg.chunk_size
         /\ a < cfg.chunk_size /\ cfg.chunk_size - a <= cfg.read_ahead_trigger
         /\ b > cfg.chunk_size - a /\ b <= 2 * cfg.chunk_size - a) =>
            LET r1 == HttpFile_read(Fresh, a)
                r2 == HttpFile_read(r1.w, b)
            IN  /\ r1.w.spawned = 1 /\ r1.w.gets = 1 /\ r1.w.wgets = 0
                /\ Unwrap(r1.w.f.prefetch).range_start = cfg.chunk_size
                /\ Unwrap(r1.w.f.prefetch).range_end = 2 * cfg.chunk_size - 1
                /\ IsOk(r2.res)
                /\ r2.w.gets + r2.w.wgets = 2

\* C12: with read-ahead on and sequential reads, a read that leaves
\* 0 < buffer_end - file_offset <= read_ahead_trigger leaves the range
\* behind the buffer in the slot, having spawned at most one worker; reads
\* that stay inside the buffer spawn no other; the read that leaves the
\* buffer takes the chunk from the slot with no foreground get_range, so
\* that range is asked of the transport once; E4 makes two get_range calls.
C12_PrefetchOnce ==
    /\ last.n.spawned <= 1
    /\ (/\ OkRead /\ cfg.read_ahead /\ hist[last.s].seq
        /\ ~sess[last.s].eof_reached
        /\ Remaining(sess[last.s]) > 0
        /\ Remaining(sess[last.s]) <= cfg.read_ahead_trigger
        /\ Len(last.res.v) > 0) =>
           \/ SlotAhead(sess[last.s])
           \/ CacheKey(Url, NextStart(sess[last.s]), NextEnd(sess[last.s])) \in DOMAIN cache.map
    /\ \A s \in Sessions :
           Prefetching(s) =>
               /\ \A k \in 1..MaxBuf :
                      k <= Remaining(sess[s]) =>
                          LET r == HttpFile_read(Start(s), k)
                          IN  /\ IsOk(r.res)
                              /\ r.w.spawned = 0 /\ r.w.gets = 0 /\ r.w.wgets = 0
                              /\ r.w.f.prefetch = sess[s].prefetch
               /\ LET r == HttpFile_read(Start(s), Remaining(sess[s]) + 1)
                  IN  /\ IsOk(r.res)
                      /\ r.w.gets = 0
                      /\ r.w.wgets = IF Unwrap(sess[s].prefetch).rx = None THEN 1 ELSE 0
                      /\ r.w.f.prefetch # sess[s].prefetch
                      /\ r.w.orph = orphans[s]
                      /\ \/ r.w.f.buffer.buffer_start = NextStart(sess[s])
                         \/ r.w.f.eof_reached /\ r.w.f.buffer = RangeBuffer_new
    /\ C12_E4

\* a sequential read has crossed into the next chunk, which it took from
\* the worker it waited for, with no foreground get_range
C12_Witness ==
    /\ OkRead /\ hist[last.s].seq /\ cfg.read_ahead
    /\ last.n.wgets = 1 /\ last.n.gets = 0
    /\ ReadStart < sess[last.s].buffer.buffer_start
    /\ sess[last.s].buffer.buffer_start < sess[last.s].file_offset

\* C13: with read-ahead on, after a read, a backward seek and a second
\* read, each read returning at least one byte, the prefetch slot is empty
\* when the second read returns.
C13_BackwardSeekNoPrefetch ==
    \A s \in Sessions, a, b \in 1..MaxBuf, p \in 0..MaxPos :
        LET r1 == HttpFile_read(Start(s), a)
            r2 == HttpFile_seek(r1.w, p)
            r3 == HttpFile_read(r2.w, b)
        IN  (/\ cfg.read_ahead /\ Open(s)
             /\ IsOk(r1.res) /\ Len(r1.res.v) > 0
             /\ p < r1.w.f.file_offset
             /\ IsOk(r3.res) /\ Len(r3.res.v) > 0) =>
                r3.w.f.prefetch = None

\* the next read of session s starts with a refill that the prefetch
\* slot does not serve
ForegroundRefill(s) ==
    /\ Open(s) /\ ~sess[s].eof_reached
    /\ ~RangeBuffer_contains(sess[s].buffer, sess[s].file_offset)
    /\ sess[s].file_offset < resLen
    /\ \/ sess[s].prefetch = None
       \/ Unwrap(sess[s].prefetch).range_start # sess[s].file_offset

\* C14: with retry_max_attempts = m and a get_range that fails with a
\* Network error k times before it succeeds, a foreground refill succeeds
\* after exactly k + 1 get_range calls when k <= m and fails with the
\* Network error after exactly m + 1 calls when k > m; so does the read
\* of one byte that runs it.
C14_RetryBudget ==
    \A s \in Sessions :
        (ForegroundRefill(s) /\ ~net.rangeProto /\ ~CacheOn) =>
            LET k == net.rangeFails
                m == cfg.retry_max_attempts
                f == refill_buffer(Start(s))
                r == HttpFile_read(Start(s), 1)
            IN  IF k <= m
                THEN /\ f.err = None /\ f.gets = k + 1
                     /\ f.net.rangeFails = 0
                     /\ IsOk(r.res) /\ Len(r.res.v) = 1 /\ r.w.gets = k + 1
                ELSE /\ f.err = Some("Network") /\ f.gets = m + 1
                     /\ f.net.rangeFails = k - (m + 1)
                     /\ r.res = Err("Network") /\ r.w.gets = m + 1

\* a read of one byte has succeeded on the last attempt of the largest
\* budget
C14_Witness ==
    /\ OkRead /\ last.arg = 1 /\ Len(last.res.v) = 1
    /\ cfg.retry_max_attempts = MaxRetries
    /\ last.n.gets = MaxRetries + 1

\* C15: when get_range answers a foreground refill with a Protocol error,
\* the read fails with that error after exactly one get_range call,
\* whatever retry_max_attempts is.
C15_ProtocolPassthrough ==
    /\ \A s \in Sessions, bufLen \in 1..MaxBuf :
           (ForegroundRefill(s) /\ net.rangeProto /\ net.rangeFails = 0 /\ ~CacheOn) =>
               LET r == HttpFile_read(Start(s), bufLen)
               IN  /\ r.res = Err("Protocol")
                   /\ r.w.gets = 1 /\ r.w.wgets = 0
                   /\ ~r.w.net.rangeProto
    /\ (last.op = "read" /\ last.res = Err("Protocol")) => last.n.gets + last.n.wgets <= 1

\* a read has failed with the Protocol error of its one get_range call
\* under the largest budget
C15_Witness ==
    /\ last.op = "read" /\ last.res = Err("Protocol")
    /\ last.n.gets = 1 /\ last.n.wgets = 0
    /\ cfg.retry_max_attempts = MaxRetries

\* what a call on session s that ended in w did to the content length
Memoized(s, w) ==
    /\ w.heads <= 1 + cfg.retry_max_attempts
    /\ w.heads > 0 => (sess[s].cached_size = None /\ w.f.cached_size # None)
    /\ sess[s].cached_size # None => w.f.cached_size = sess[s].cached_size

\* C16: a call makes get_content_length calls only while the session has
\* no memoized outcome, at most 1 + retry_max_attempts of them, and
\* memoizes the outcome; no call changes a memoized outcome; size() on an
\* open session returns the memoized outcome and on a closed one None.
C16_SizeProbedOnce ==
    /\ \A s \in Sessions :
           /\ \A bufLen \in 0..MaxBuf : Memoized(s, HttpFile_read(Start(s), bufLen).w)
           /\ \A pos \in 0..MaxPos : Memoized(s, HttpFile_seek(Start(s), pos).w)
           /\ Memoized(s, HttpFile_close(Start(s)))
           /\ LET r == HttpFile_size(Start(s))
              IN  /\ Memoized(s, r.w)
                  /\ IF Open(s)
                     THEN /\ r.w.f.cached_size = Some(r.res)
                          /\ HttpFile_size(r.w).res = r.res
                          /\ HttpFile_size(r.w).w.heads = r.w.heads
                     ELSE r.res = None /\ r.w.heads = 0
    /\ (last.op = "size" /\ Open(last.s)) =>
           /\ sess[last.s].cached_size = Some(last.res.v)
           /\ last.n.heads <= 1 + cfg.retry_max_attempts

\* size() has returned the unknown length memoized when the probe failed,
\* without a call, from an origin whose HEAD would now answer
C16_Witness ==
    /\ last.op = "size" /\ Open(last.s)
    /\ last.n.heads = 0
    /\ last.res.v = None
    /\ net.headKnown /\ net.headFails = 0 /\ ~net.headProto
    /\ sess[last.s].file_offset > 0

\* C17: on an open session seek(p) succeeds for every p, also beyond the
\* end of the resource, tell() then returns p, and the seek makes no
\* transport call, spawns no worker and leaves the shared cache unchanged.
C17_SeekLazy ==
    /\ \A s \in Sessions, pos \in 0..MaxPos :
           Open(s) =>
               LET r == HttpFile_seek(Start(s), pos)
               IN  /\ IsOk(r.res)
                   /\ HttpFile_tell(r.w.f) = pos
                   /\ Counts(r.w) = NoCounts
                   /\ r.w.net = net
                   /\ r.w.cache = cache
    /\ (last.op = "seek" /\ Open(last.s)) =>
           /\ IsOk(last.res)
           /\ HttpFile_tell(sess[last.s]) = last.arg
           /\ last.n = NoCounts

\* a seek beyond the end of a resource of known length has succeeded
\* while a prefetch worker was running
C17_Witness ==
    /\ last.op = "seek" /\ Open(last.s) /\ IsOk(last.res)
    /\ last.arg > resLen
    /\ sess[last.s].cached_size = Some(Some(resLen))
    /\ orphans[last.s] > 0
    /\ cache.lru # <<>>

\* url is http:// or https:// followed by anything
HasHttpScheme(url) ==
    \E k \in 0..Len(url) : SubSeq(url, 1, k) \in {HttpScheme, HttpsScheme}

\* what open(url, mode) returns
C18_Results ==
    \A url \in TestUrls, mode \in TestModes :
        LET r == open(url, mode)
        IN  /\ r = IF IsOk(create(url)) THEN HttpFileSystem_open(url, mode) ELSE create(url)
            /\ IF ~HasHttpScheme(url)
               THEN r = Err("UnsupportedProtocol")
               ELSE IF mode \notin {"r", "rb"}
               THEN r = Err("Io:InvalidInput")
               ELSE /\ IsOk(r)
                    /\ HttpFile_tell(r.v) = 0
                    /\ ~HttpFile_eof(r.v)
                    /\ ~r.v.closed

\* what a call of open does to the session and to the transport
C18_Step ==
    last'.op = "open_url" =>
        /\ net' = net
        /\ last'.n = NoCounts
        /\ last'.res = IF IsOk(open(last'.arg.url, last'.arg.mode))
                       THEN Ok(<<>>)
                       ELSE open(last'.arg.url, last'.arg.mode)
        /\ IF IsOk(last'.res)
           THEN /\ HttpFile_tell(sess'[last'.s]) = 0
                /\ ~HttpFile_eof(sess'[last'.s])
                /\ sess'[last'.s].buffer = RangeBuffer_new
           ELSE sess' = sess

\* C18: open(url, mode) is create(url) followed by the filesystem's open:
\* UnsupportedProtocol when url has neither scheme, whatever the mode, else
\* an Io InvalidInput error when mode is neither "r" nor "rb", else a
\* session at offset 0 with eof false; no transport call is made.
C18_OpenUrl == []C18_Results /\ [][C18_Step]_vars

\* open has refused a URL without the scheme together with a mode that is
\* not a read mode, on a session that had read
C18_Witness ==
    /\ last.op = "open_url"
    /\ last.res = Err("UnsupportedProtocol")
    /\ last.arg.mode = "w"
    /\ sess[last.s].file_offset > 0

\* the slot of f holds the receiver of a worker that has not finished
SlotPending(f) == IsSome(f.prefetch) /\ Unwrap(f.prefetch).rx = None

\* the prefetch workers of a session that were spawned and have not
\* finished: the one whose receiver is in the slot, and those whose receiver
\* was dropped
Unfinished(f, orph) == orph + (IF SlotPending(f) THEN 1 ELSE 0)

UnfinishedWorkers(s) == Unfinished(sess[s], orphans[s])

\* C19 as stated: in every reachable state a session has at most one
\* prefetch worker that was spawned and has not finished.
C19_OneWorker == \A s \in Sessions : UnfinishedWorkers(s) <= 1

\* C19, amended: a read spawns at most one worker and adds at most that one
\* to the unfinished workers of the session; seek and close empty the slot,
\* spawn nothing, and leave the worker whose receiver they drop running, so
\* only the worker whose receiver is in the slot is limited to one.
C19_OneSlotWorker ==
    \A s \in Sessions :
        Open(s) =>
            /\ \A bufLen \in 0..MaxBuf :
                   LET r == HttpFile_read(Start(s), bufLen)
                   IN  /\ r.w.spawned <= 1
                       /\ Unfinished(r.w.f, r.w.orph) <= UnfinishedWorkers(s) + r.w.spawned
                       /\ r.w.orph <= UnfinishedWorkers(s)
            /\ \A pos \in 0..MaxPos :
                   LET r == HttpFile_seek(Start(s), pos)
                   IN  /\ r.w.spawned = 0
                       /\ r.w.f.prefetch = None
                       /\ r.w.orph = UnfinishedWorkers(s)
            /\ LET w == HttpFile_close(Start(s))
               IN  /\ w.spawned = 0
                   /\ w.f.prefetch = None
                   /\ w.orph = UnfinishedWorkers(s)

\* a read has spawned a worker while a worker detached earlier still runs
C19_Witness ==
    /\ last.op = "read" /\ last.n.spawned = 1
    /\ orphans[last.s] = 1 /\ SlotPending(sess[last.s])
    /\ UnfinishedWorkers(last.s) = 2

\* C20 as stated, in what it says of the loop: every pass through the loop
\* of read copies at least one byte or ends the loop (EOF or an error), so
\* a read into n bytes makes at most n copying passes and one more.
C20_EveryPassProgresses ==
    \A s \in Sessions, bufLen \in 0..MaxBuf :
        Open(s) => HttpFile_read(Start(s), bufLen).w.passes <= bufLen + 1

\* C20, amended: every read returns, after a bounded amount of work: at most 2 * n
\* passes through its loop for a destination of n bytes (every pass that
\* refills is followed by one that copies at least a byte, or ends the
\* loop), at most n retry loops of at most 1 + retry_max_attempts GETs each,
\* its own or those of the worker it waits for, and at most one retry loop
\* of HEADs; it returns Ok with at most n bytes or a Network or Protocol
\* error, never the "too many refill attempts" one; and a slot asked for
\* its own range always yields a result.
C20_ReadTerminates ==
    \A s \in Sessions :
        Open(s) =>
            /\ \A bufLen \in 0..MaxBuf :
                   LET r == HttpFile_read(Start(s), bufLen)
                   IN  /\ r.w.passes <= 2 * bufLen
                       /\ r.w.gets + r.w.wgets <= bufLen * (1 + cfg.retry_max_attempts)
                       /\ r.w.heads <= 1 + cfg.retry_max_attempts
                       /\ IF IsOk(r.res)
                          THEN Len(r.res.v) <= bufLen /\ 2 * Len(r.res.v) + 1 >= r.w.passes
                          ELSE r.res.v \in {"Network", "Protocol"} /\ r.w.passes <= 2 * bufLen - 1
            /\ IsSome(sess[s].prefetch) =>
                   LET p == Unwrap(sess[s].prefetch)
                       t == take_prefetch_if_match(Start(s), p.range_start, p.range_end)
                   IN  /\ IsSome(t.res)
                       /\ t.w.f.prefetch = None
                       /\ t.w.wgets <= 1 + cfg.retry_max_attempts

\* over an origin of unknown length that answers every range with one
\* byte, a read has filled a destination of several bytes, one GET a byte
C20_Witness ==
    /\ net.mode = "one" /\ ~net.headKnown
    /\ last.op = "read" /\ last.arg >= 2
    /\ IsOk(last.res) /\ Len(last.res.v) = last.arg
    /\ last.n.gets + last.n.wgets = last.arg

\* session s is where the loop of read calls refill_buffer: open, not at
\* EOF, its offset outside the resident buffer
NeedsRefill(s) ==
    /\ Open(s) /\ ~sess[s].eof_reached
    /\ ~RangeBuffer_contains(sess[s].buffer, sess[s].file_offset)

\* refill_buffer returned Ok in r and installed a non-empty payload at the
\* offset of session s
Installed(s, r) ==
    /\ r.err = None
    /\ r.f.buffer.data # <<>>
    /\ r.f.buffer.buffer_start = sess[s].file_offset
    /\ r.f.buffer.buffer_end = sess[s].file_offset + Len(r.f.buffer.data)

\* C21: with a memoized size Some(n), a successful refill at range_start
\* that installs a non-empty payload of actual_size bytes, from the cache,
\* a consumed prefetch or a foreground GET, leaves eof_reached equal to
\* (range_start + actual_size >= n).
C21_EofKnownSize ==
    \A s \in Sessions :
        NeedsRefill(s) =>
            LET r == refill_buffer(Start(s))
            IN  (r.err = None /\ r.f.buffer.data # <<>> /\ r.f.cached_size = Some(Some(resLen))) =>
                    /\ Installed(s, r)
                    /\ r.f.eof_reached = (sess[s].file_offset + Len(r.f.buffer.data) >= resLen)

\* with the size known, a read was served without a foreground GET (from
\* the cache or the slot) by a payload that is shorter than the chunk and
\* ends at the size, and EOF is set
C21_Witness ==
    /\ last.op = "read" /\ IsOk(last.res) /\ last.n.gets = 0 /\ last.res.v # <<>>
    /\ sess[last.s].cached_size = Some(Some(resLen))
    /\ sess[last.s].eof_reached
    /\ sess[last.s].buffer.buffer_end = resLen
    /\ Len(sess[last.s].buffer.data) < cfg.chunk_size
    /\ sess[last.s].buffer.buffer_end - Len(sess[last.s].buffer.data) > 0

\* E3 scaled to the chunk size c: an origin of unknown length c < n < 2c
\* that answers exactly (c bytes, then n - c, then none)
E3 ==
    /\ ~net.headKnown /\ net.mode = "exact" /\ NoFault(net)
    /\ cfg.chunk_size < resLen /\ resLen < 2 * cfg.chunk_size

\* a new session on the filesystem as built
NewCall ==
    Call(HttpFile_new, RangeCache_new(cfg.cache_max_entries, cfg.cache_max_bytes), net, 0)

\* C22: with the size probed and unknown, a successful non-empty refill
\* sets eof_reached exactly when the payload is shorter than the chunk and
\* a resident buffer existed (old_buffer_end > 0); a short first response,
\* on a new session or after a seek that cleared the buffer, is delivered
\* without EOF; in E3 a sequential read of more than the resource returns
\* the whole resource without error.
C22_EofUnknownSize ==
    /\ \A s \in Sessions :
           NeedsRefill(s) =>
               LET r == refill_buffer(Start(s))
               IN  (r.err = None /\ r.f.buffer.data # <<>> /\ r.f.cached_size = Some(None)) =>
                       /\ Installed(s, r)
                       /\ r.f.eof_reached = (/\ Len(r.f.buffer.data) < cfg.chunk_size
                                             /\ sess[s].buffer.buffer_end > 0)
    /\ \A s \in Sessions, pos \in 0..MaxPos :
           LET k == HttpFile_seek(Start(s), pos).w
               r == HttpFile_read(k, 1)
           IN  (/\ Open(s) /\ k.f.buffer = RangeBuffer_new
                /\ IsOk(r.res) /\ r.res.v # <<>> /\ r.w.f.cached_size = Some(None)) =>
                   /\ r.res.v = ResourceRange(pos, pos + 1, resLen)
                   /\ ~r.w.f.eof_reached
    /\ E3 =>
           LET r == HttpFile_read(NewCall, resLen + 1)
           IN  /\ r.res = Ok(ResourceRange(0, resLen, resLen))
               /\ r.w.f.eof_reached
               /\ r.w.gets = 2

\* in E3 a sequential read has returned the whole resource: the second
\* refill was short with a resident buffer and set EOF
C22_Witness ==
    /\ E3
    /\ last.op = "read" /\ last.res = Ok(ResourceRange(0, resLen, resLen))
    /\ last.n.gets = 2
    /\ sess[last.s].cached_size = Some(None)
    /\ sess[last.s].eof_reached
    /\ Len(sess[last.s].buffer.data) < cfg.chunk_size

\* C23: seek(p) on an open session clears the resident buffer exactly when
\* p < file_offset or the buffer does not contain p, and otherwise leaves
\* its data, start and end unchanged; in every case it sets file_offset = p
\* and eof_reached = false, empties the slot, clears last_read_end, and
\* leaves closed and the memoized size unchanged.
C23_SeekFrame ==
    /\ \A s \in Sessions, pos \in 0..MaxPos :
           Open(s) =>
               LET f == sess[s]
                   g == HttpFile_seek(Start(s), pos).w.f
               IN  /\ g.buffer = IF pos < f.file_offset \/ ~RangeBuffer_contains(f.buffer, pos)
                                 THEN RangeBuffer_new
                                 ELSE f.buffer
                   /\ g.file_offset = pos
                   /\ ~g.eof_reached
                   /\ g.prefetch = None
                   /\ g.last_read_end = None
                   /\ g.closed = f.closed
                   /\ g.cached_size = f.cached_size
    /\ (last.op = "seek" /\ IsOk(last.res)) =>
           /\ sess[last.s].file_offset = last.arg
           /\ ~sess[last.s].eof_reached
           /\ sess[last.s].prefetch = None
           /\ sess[last.s].last_read_end = None
           /\ \/ sess[last.s].buffer = RangeBuffer_new
              \/ RangeBuffer_contains(sess[last.s].buffer, last.arg)

\* a seek has landed inside the resident buffer, past its start, and the
\* buffer, which held the last byte of a known size, is still there
C23_Witness ==
    /\ last.op = "seek" /\ IsOk(last.res)
    /\ sess[last.s].buffer.data # <<>>
    /\ last.arg > sess[last.s].buffer.buffer_start
    /\ RangeBuffer_contains(sess[last.s].buffer, last.arg)
    /\ sess[last.s].cached_size = Some(Some(resLen))
    /\ sess[last.s].buffer.buffer_end = resLen

\* the slot of f targets the range behind its resident buffer
TargetsNext(f) ==
    f.prefetch # None /\ Unwrap(f.prefetch).range_start = NextStart(f)
                     /\ Unwrap(f.prefetch).range_end = NextEnd(f)

\* the conditions under which a prefetch is scheduled for the session x.f
\* with the cache x.cache
MaySchedule(x) ==
    /\ cfg.read_ahead
    /\ ~x.f.eof_reached
    /\ x.f.buffer.buffer_end > x.f.file_offset
    /\ x.f.buffer.buffer_end - x.f.file_offset <= cfg.read_ahead_trigger
    /\ ~TargetsNext(x.f)
    /\ CacheKey(Url, NextStart(x.f), NextEnd(x.f)) \notin DOMAIN x.cache.map

\* C24: a prefetch worker is spawned only at the end of a read that
\* returned n > 0 with read_ahead enabled, eof_reached false, buffer_end >
\* file_offset, buffer_end - file_offset <= read_ahead_trigger, the slot not
\* targeting (buffer_end, buffer_end + chunk_size - 1) and that range not
\* in the cache; the slot it fills holds exactly that range, and every
\* occupied slot holds a range of chunk_size; a read that drains the
\* buffer schedules nothing; seek, size and close spawn nothing.
C24_PrefetchGuard ==
    /\ \A s \in Sessions, bufLen \in 0..MaxBuf :
           Open(s) =>
               LET l == read_loop(Start(s), bufLen, <<>>, 0)
                   r == HttpFile_read(Start(s), bufLen)
               IN  /\ r.w.spawned <= 1
                   /\ r.w.spawned = 1 =>
                          /\ IsOk(r.res) /\ Len(r.res.v) > 0
                          /\ MaySchedule(l.w)
                          /\ r.w.f.buffer = l.w.f.buffer
                          /\ r.w.f.file_offset = l.w.f.file_offset
                          /\ r.w.f.prefetch = Some(PrefetchState(NextStart(l.w.f), NextEnd(l.w.f)))
                   /\ r.w.f.file_offset = r.w.f.buffer.buffer_end => r.w.spawned = 0
    /\ \A s \in Sessions :
           /\ \A pos \in 0..MaxPos : HttpFile_seek(Start(s), pos).w.spawned = 0
           /\ HttpFile_size(Start(s)).w.spawned = 0
           /\ HttpFile_close(Start(s)).spawned = 0
           /\ sess[s].prefetch # None =>
                  LET p == Unwrap(sess[s].prefetch)
                  IN  p.range_end = p.range_start + cfg.chunk_size - 1
    /\ (last.op = "read" /\ last.n.spawned = 1) =>
           /\ IsOk(last.res) /\ Len(last.res.v) > 0
           /\ cfg.read_ahead /\ ~sess[last.s].eof_reached
           /\ Remaining(sess[last.s]) > 0
           /\ Remaining(sess[last.s]) <= cfg.read_ahead_trigger
           /\ TargetsNext(sess[last.s])

\* over an origin that answers a byte more than the chunk, so that a read
\* can leave more than the trigger unread, a read has spawned a worker once
\* the unread bytes were down to the trigger, with the cache in use
C24_Witness ==
    /\ last.op = "read" /\ last.n.spawned = 1
    /\ net.mode = "over"
    /\ Len(sess[last.s].buffer.data) > cfg.chunk_size
    /\ Remaining(sess[last.s]) = cfg.read_ahead_trigger
    /\ cache.lru # <<>>
    /\ TargetsNext(sess[last.s])

\* C25: the slot is discarded on seek, on close, on a non-sequential read
\* and on EOF: after a seek or a close the slot of the session is empty,
\* after a read that did not start where the previous one ended it is
\* empty, and eof_reached = true implies that it is empty, also when a
\* peer session shares the cache.
C25_SlotDiscarded ==
    /\ last.op \in {"seek", "close"} => sess[last.s].prefetch = None
    /\ \A s \in Sessions, bufLen \in 1..MaxBuf :
           (/\ Open(s) /\ sess[s].last_read_end # None
            /\ Unwrap(sess[s].last_read_end) # sess[s].file_offset) =>
               HttpFile_read(Start(s), bufLen).w.f.prefetch = None
    /\ \A s \in Sessions : sess[s].eof_reached => sess[s].prefetch = None

\* min(max, base * 2^min(a, 20)), the product past DurationMax giving max
Backoff(base, max, a) ==
    IF base > DurationMax \div (2^Min(a, 20)) THEN max ELSE Min(max, base * 2^Min(a, 20))

\* the sleeps of the retry loop that ended in r: one less than its calls,
\* the one after failed attempt a being Backoff(a), none above the
\* maximum, none shorter than the one before
BackoffSleeps(r) ==
    /\ Len(r.slept) = r.calls - 1
    /\ \A i \in 1..Len(r.slept) :
           /\ r.slept[i] = Backoff(cfg.retry_base_delay, cfg.retry_max_delay, i - 1)
           /\ r.slept[i] <= cfg.retry_max_delay
           /\ i > 1 => r.slept[i - 1] <= r.slept[i]

\* C26: the sleep after failed attempt a is min(max_delay, base_delay *
\* 2^min(a, 20)), an overflowing product giving max_delay; every sleep is
\* <= retry_max_delay, the sleeps are non-decreasing in a, and a retry loop
\* that makes c transport calls sleeps exactly c - 1 times.
C26_Backoff ==
    /\ \A d \in Delays, a \in 0..MaxAttempt :
           /\ retry_delay(d[1], d[2], a) = Backoff(d[1], d[2], a)
           /\ retry_delay(d[1], d[2], a) <= d[2]
           /\ a > 0 => retry_delay(d[1], d[2], a - 1) <= retry_delay(d[1], d[2], a)
    /\ BackoffSleeps(get_range_with_retry(net, 0, cfg.chunk_size - 1))
    /\ BackoffSleeps(get_content_length_with_retry(net))

\* a read went through a retry loop of three GETs, whose two sleeps were
\* the maximum: the base is above it and twice the base is past DurationMax
C26_Witness ==
    /\ last.op = "read" /\ IsOk(last.res) /\ last.n.gets = 3
    /\ cfg.retry_base_delay > cfg.retry_max_delay
    /\ cfg.retry_base_delay > DurationMax \div 2
    /\ net.rangeFails = 0

\* what the response of the origin to a GET from start makes of the call
StatusResult(start) ==
    CASE net.status = 416 -> Ok(<<>>)
      [] net.status = 200 -> Err("Protocol")
      [] net.status = 206 ->
            IF net.content_range \in {None, Some(0)}
            THEN Ok(ResourceRange(start, start + cfg.chunk_size, resLen))
            ELSE Err("Protocol")
      [] OTHER -> Err("Network")

\* C27: get_range turns status 416 into Ok with empty data, which the
\* session turns into eof_reached with an empty buffer; status 200 into a
\* Protocol error; status 206 into Ok with the body unless a parsed
\* Content-Range starts elsewhere than the request, which is a Protocol
\* error; every other status into a Network error, which the caller
\* retries retry_max_attempts times.
C27_StatusHandling ==
    /\ \A start \in 0..MaxPos :
           get_range(net, start, start + cfg.chunk_size - 1).res = StatusResult(start)
    /\ \A pos \in 0..MaxPos :
           LET r == HttpFile_read(HttpFile_seek(NewCall, pos).w, 1)
               g == StatusResult(pos)
           IN  /\ IsOk(g) => /\ r.res = Ok(SubSeq(g.v, 1, Min(1, Len(g.v))))
                             /\ r.w.gets = 1
                             /\ g.v = <<>> => r.w.f.eof_reached /\ r.w.f.buffer = RangeBuffer_new
               /\ ~IsOk(g) => /\ r.res = g
                              /\ r.w.gets = IF g.v = "Network" THEN 1 + cfg.retry_max_attempts ELSE 1
    /\ (last.op = "read" /\ ~IsOk(last.res) /\ Open(last.s)) =>
           /\ last.res = StatusResult(sess[last.s].file_offset)
           /\ last.n.gets + last.n.wgets = IF last.res.v = "Network" THEN 1 + cfg.retry_max_attempts ELSE 1

\* a read failed with a Network error after the origin answered a status
\* that is neither 200, 206 nor 416 to the first GET and to its retry
C27_Witness ==
    /\ last.op = "read" /\ last.res = Err("Network")
    /\ net.status = 404
    /\ cfg.retry_max_attempts = 1 /\ last.n.gets = 2

\* C28 as stated: every key in the cache has start a multiple of
\* chunk_size and end = start + chunk_size - 1.
C28_KeysAligned ==
    \A k \in DOMAIN cache.map :
        k.start % cfg.chunk_size = 0 /\ k.end = k.start + cfg.chunk_size - 1

\* C28, amended: every key in the cache spans chunk_size bytes, end = start +
\* chunk_size - 1; the only key a refill adds is the one that starts at the
\* file_offset of the session, whatever it is, and the range of an occupied
\* slot starts at the buffer_end of the session when it was scheduled.
C28_KeysChunkLong ==
    /\ \A k \in DOMAIN cache.map :
           k.url = Url /\ k.end = k.start + cfg.chunk_size - 1
    /\ \A s \in Sessions :
           NeedsRefill(s) =>
               DOMAIN refill_buffer(Start(s)).cache.map \subseteq
                   DOMAIN cache.map \cup
                       {CacheKey(Url, sess[s].file_offset,
                                 sess[s].file_offset + cfg.chunk_size - 1)}
    /\ (last.op = "read" /\ last.n.spawned = 1) =>
           Unwrap(sess[last.s].prefetch).range_start = sess[last.s].buffer.buffer_end

\* after a read, the cache holds a key whose start is not a multiple of
\* chunk_size
C28_Witness ==
    /\ last.op = "read" /\ IsOk(last.res)
    /\ \E k \in DOMAIN cache.map :
           /\ k.start % cfg.chunk_size # 0
           /\ k.start = sess[last.s].buffer.buffer_start

\* the insert is one the cache refuses: caching is off or the payload is
\* longer than max_bytes
Refused(c, data) == c.max_entries = 0 \/ c.max_bytes = 0 \/ Len(data) > c.max_bytes

\* an insert step that the cache refuses leaves the whole cache as it was
C29_Step ==
    (last'.op = "insert" /\ Refused(cache, last'.arg.data)) => cache' = cache

\* from every state: a refused insert returns the cache unchanged, the entry
\* held under the key is still what get returns, and a cache that is off
\* misses every get and is left unchanged by it
C29_Frame ==
    /\ \A k \in TestKeys, B \in Payloads :
           Refused(cache, B) =>
               LET c == RangeCache_insert(cache, k, B)
               IN  /\ c.map = cache.map /\ c.lru = cache.lru
                   /\ c.current_bytes = cache.current_bytes
                   /\ RangeCache_get(c, k).res = RangeCache_get(cache, k).res
                   /\ k \in DOMAIN cache.map =>
                          RangeCache_get(c, k).res = Some(cache.map[k].data)
    /\ ~CacheOn =>
           \A k \in TestKeys :
               /\ RangeCache_get(cache, k).res = None
               /\ RangeCache_get(cache, k).cache = cache
    /\ (last.op = "get" /\ ~CacheOn) => last.res = Ok(None)

\* C29: an insert of a payload longer than max_bytes, or any insert while
\* caching is off (max_entries = 0 or max_bytes = 0), changes nothing: map,
\* LRU order and current_bytes stay, the entry held under the key is still
\* returned by get; a cache that is off misses every get.
C29_RefusedInsert == [][C29_Step]_vars /\ []C29_Frame

\* a payload longer than max_bytes was offered under a key that holds an
\* entry, while another key is held too
C29_Witness ==
    /\ last.op = "insert" /\ CacheOn
    /\ Len(last.arg.data) > cache.max_bytes
    /\ last.arg.key \in DOMAIN cache.map
    /\ Len(cache.lru) > 1

\* the slot of session s is for exactly the range its next refill asks for
SlotMatches(s) ==
    /\ IsSome(sess[s].prefetch)
    /\ Unwrap(sess[s].prefetch).range_start = sess[s].file_offset
    /\ Unwrap(sess[s].prefetch).range_end =
           SatAdd(sess[s].file_offset, SatSub(cfg.chunk_size, 1))

\* what the worker behind the slot of session s delivers: the result it has
\* sent, or the one it sends when the refill blocks on the receiver
WorkerOutcome(s) ==
    LET p == Unwrap(sess[s].prefetch)
    IN  IF IsSome(p.rx) THEN Unwrap(p.rx)
        ELSE get_range_with_retry(net, p.range_start, p.range_end).res

\* a refill that consumes the slot: no foreground request, the slot is left
\* empty, the worker's error is the refill's and the read's error and the
\* refill after it asks the transport itself; the worker's payload is the
\* chunk installed
Consumes(s, r, o) ==
    /\ r.gets = 0
    /\ r.wgets = IF Unwrap(sess[s].prefetch).rx = None
                 THEN get_range_with_retry(net, sess[s].file_offset, sess[s].file_offset).calls
                 ELSE 0
    /\ r.f.prefetch = None
    /\ r.orph = orphans[s]
    /\ ~IsOk(o) =>
           /\ r.err = Some(o.v)
           /\ o.v \in {"Network", "Protocol"}
           /\ r.f.buffer = sess[s].buffer /\ r.f.file_offset = sess[s].file_offset
           /\ r.cache = cache
           /\ \A bufLen \in 1..MaxBuf :
                  LET rd == HttpFile_read(Start(s), bufLen)
                  IN  rd.res = Err(o.v) /\ rd.w.gets = 0 /\ rd.w.f.prefetch = None
           /\ LET again == refill_buffer(Call(r.f, r.cache, r.net, r.orph))
              IN  again.gets >= 1 /\ again.wgets = 0
    /\ (IsOk(o) /\ Len(o.v) > 0) =>
           r.f.buffer = RangeBuffer_set_data(o.v, sess[s].file_offset,
                                             sess[s].file_offset + Len(o.v))
    /\ (IsOk(o) /\ Len(o.v) = 0) => (r.err = None /\ r.f.eof_reached)

\* the shared cache holds the chunk that the next refill of session s asks for
ChunkCached(s) ==
    IsSome(try_cache_lookup(Start(s), sess[s].file_offset,
                            SatAdd(sess[s].file_offset, SatSub(cfg.chunk_size, 1))).res)

C30_ConsumedOnMiss ==
    \A s \in Sessions :
        (NeedsRefill(s) /\ SlotMatches(s)) =>
            \E r \in {refill_buffer(Start(s))} :
                IF ChunkCached(s)
                THEN /\ r.err = None
                     /\ r.gets = 0 /\ r.wgets = 0
                     /\ r.f.prefetch = sess[s].prefetch
                     /\ r.net = IF sess[s].cached_size = None
                                THEN get_content_length_with_retry(net).net
                                ELSE net
                ELSE Consumes(s, r, WorkerOutcome(s))

\* a slot that a seek or a close drops leaves no trace of its result, and
\* the workers that lost their slot have no part in what a read returns
C30_Dropped ==
    \A s \in Sessions :
        LET bare == Call([sess[s] EXCEPT !.prefetch = None], cache, net, 0)
        IN  /\ \A pos \in 0..MaxPos :
                   LET a == HttpFile_seek(Start(s), pos)
                       b == HttpFile_seek(bare, pos)
                   IN  a.res = b.res /\ a.w.f = b.w.f /\ a.w.cache = b.w.cache
            /\ HttpFile_close(Start(s)).f = HttpFile_close(bare).f
            /\ \A bufLen \in 1..MaxBuf :
                   LET a == HttpFile_read(Start(s), bufLen)
                       b == HttpFile_read(Call(sess[s], cache, net, 0), bufLen)
                   IN  a.res = b.res /\ a.w.f = b.w.f /\ a.w.cache = b.w.cache

\* the step in which a worker without a slot ends changes no session, not
\* the cache and not the record of the last operation
C30_OrphanStep ==
    (\E s \in Sessions : orphans'[s] < orphans[s]) =>
        (sess' = sess /\ cache' = cache /\ hist' = hist /\ last' = last)

C31_ShortReadAtEof ==
    /\ (OkRead /\ last.arg > 0 /\ Len(last.res.v) < last.arg) =>
           HttpFile_eof(sess[last.s])
    /\ \A s \in Sessions, bufLen \in 1..MaxBuf :
           Open(s) =>
               \E r \in {HttpFile_read(Start(s), bufLen)} :
                   IsOk(r.res) =>
                       /\ Len(r.res.v) <= bufLen
                       /\ Len(r.res.v) < bufLen => HttpFile_eof(r.w.f)
                       /\ ~HttpFile_eof(r.w.f) => Len(r.res.v) = bufLen

\* a read went to the transport twice, copied from both chunks and came
\* back short at the end of the resource
C31_Witness ==
    /\ OkRead /\ last.n.gets + last.n.wgets >= 2
    /\ Len(last.res.v) > cfg.chunk_size
    /\ Len(last.res.v) < last.arg
    /\ HttpFile_eof(sess[last.s])

\* what a refill that returns Ok leaves: the EOF flag over a cleared buffer,
\* or a chunk that is not empty, contains file_offset and ends beyond the
\* end of the buffer it replaces
Advances(s, r) ==
    \/ r.f.eof_reached /\ r.f.buffer = RangeBuffer_clear
    \/ /\ r.f.buffer.data # <<>>
       /\ RangeBuffer_contains(r.f.buffer, sess[s].file_offset)
       /\ r.f.buffer.buffer_end > sess[s].buffer.buffer_end

\* C32: the no-progress guards never fire. Every refill that returns Ok
\* sets eof_reached with an empty payload or installs a chunk that is not
\* empty, contains file_offset and ends beyond the previous buffer_end;
\* within one read refill_attempts stays at most 1, and no read returns
\* through "Too many refill attempts", "Buffer refill did not advance" or
\* "buffer contains offset but read returned 0".
C32_GuardsSilent ==
    \A s \in Sessions :
        /\ NeedsRefill(s) =>
               \E r \in {refill_buffer(Start(s))} :
                   /\ r.stalls = 0
                   /\ r.err = None => Advances(s, r)
        /\ Open(s) =>
               \A bufLen \in 1..MaxBuf :
                   \E r \in {HttpFile_read(Start(s), bufLen)} :
                       r.w.stalls = 0 /\ r.w.attempts <= 1

\* after a seek inside the buffer a read went on over the end of the
\* chunk it started in, and the transport sent more than was asked for
C32_Witness ==
    /\ OkRead /\ net.mode = "over"
    /\ last.n.gets + last.n.wgets >= 1
    /\ ReadStart > 0
    /\ ReadStart < sess[last.s].buffer.buffer_start
    /\ Len(last.res.v) = last.arg

\* the resident buffer of session s is well formed around file_offset
BufferFramed(f) ==
    /\ f.buffer.buffer_end = f.buffer.buffer_start + Len(f.buffer.data)
    /\ IF Len(f.buffer.data) = 0
       THEN f.buffer.buffer_start = 0 /\ f.buffer.buffer_end = 0
       ELSE f.buffer.buffer_start <= f.file_offset /\ f.file_offset <= f.buffer.buffer_end

\* C33: between operations the resident buffer of every session has
\* buffer_end = buffer_start + |data| and is either empty with
\* buffer_start = buffer_end = 0 or has buffer_start <= file_offset <=
\* buffer_end; every payload a session has stored in the cache is non-empty
\* (and so is every payload it has installed: a buffer without bytes is the
\* cleared one).
C33_BufferInvariant ==
    /\ \A s \in Sessions : BufferFramed(sess[s])
    /\ \A k \in DOMAIN cache.map : Len(cache.map[k].data) > 0

\* a seek moved forward inside a chunk longer than chunk_size, which is
\* also held by the cache
C33_Witness ==
    /\ last.op = "seek" /\ IsOk(last.res)
    /\ Len(sess[last.s].buffer.data) > cfg.chunk_size
    /\ sess[last.s].buffer.buffer_start < sess[last.s].file_offset
    /\ sess[last.s].file_offset < sess[last.s].buffer.buffer_end
    /\ \E k \in DOMAIN cache.map : cache.map[k].data = sess[last.s].buffer.data

\* last_read_end is unset or is the offset the next read starts at, which
\* is what the detector of read takes for sequential
Tracked(f) == f.last_read_end = None \/ f.last_read_end = Some(f.file_offset)

\* from a session that is tracked, every seek and every read that returns
\* Ok leaves it tracked; a read that returns bytes sets last_read_end to
\* the new offset and takes the read-ahead branch: it drops no slot
\* except to schedule the next one
C34_Operations ==
    \A s \in Sessions :
        (Open(s) /\ Tracked(sess[s])) =>
            /\ \A pos \in 0..MaxPos :
                   \E r \in {HttpFile_seek(Start(s), pos)} :
                       r.w.f.last_read_end = None /\ Tracked(r.w.f)
            /\ \A bufLen \in 0..MaxBuf :
                   \E r \in {HttpFile_read(Start(s), bufLen)} :
                       IsOk(r.res) =>
                           /\ Tracked(r.w.f)
                           /\ Len(r.res.v) > 0 =>
                                  /\ r.w.f.last_read_end = Some(r.w.f.file_offset)
                                  /\ r.w.f.file_offset = sess[s].file_offset + Len(r.res.v)
                                  /\ r.w.orph > orphans[s] => r.w.spawned = 1
                                  /\ r.w.f.prefetch = None =>
                                         \/ sess[s].prefetch = None
                                         \/ r.w.wgets > 0
                                         \/ IsSome(Unwrap(sess[s].prefetch).rx)

\* a step after which a session is no longer tracked is a read of that
\* session that returned an error
C34_Step ==
    \A s \in Sessions :
        (Tracked(sess[s]) /\ ~Tracked(sess'[s])) =>
            (last'.op = "read" /\ last'.s = s /\ ~IsOk(last'.res))

Abandoned(s, l, r) ==
    /\ r.res = Err(Unwrap(l.w.err))
    /\ r.w.f.file_offset = sess[s].file_offset + Len(l.out)
    /\ r.w.f.last_read_end = sess[s].last_read_end
    /\ r.w.f.eof_reached = sess[s].eof_reached
    /\ BufferFramed(r.w.f)
    /\ IF r.w.f.buffer = sess[s].buffer
       THEN TRUE
       ELSE /\ Len(l.out) > 0
            /\ r.w.f.buffer.data # <<>>
            /\ r.w.f.buffer.buffer_end = r.w.f.file_offset
    /\ Len(l.out) = 0 => r.w.f.buffer = sess[s].buffer
    /\ r.w.spawned = 0

\* every read that fails leaves the session as Abandoned says
C35_FailedRead ==
    \A s \in Sessions, bufLen \in 1..MaxBuf :
        Open(s) =>
            \E l \in {read_loop(Start(s), bufLen, <<>>, 0)} :
                IsSome(l.w.err) => Abandoned(s, l, HttpFile_read(Start(s), bufLen))

\* a session whose last_read_end is set and differs from file_offset (a
\* read has failed after it had copied bytes): a read that succeeds starts
\* at file_offset, and when it returns bytes it is taken for
\* non-sequential, schedules nothing and leaves the slot empty
C35_NextRead ==
    \A s \in Sessions, bufLen \in 1..MaxBuf :
        (Open(s) /\ ~Tracked(sess[s])) =>
            \E r \in {HttpFile_read(Start(s), bufLen)} :
                IsOk(r.res) =>
                    /\ r.w.f.file_offset = sess[s].file_offset + Len(r.res.v)
                    /\ r.w.f.prefetch = None
                    /\ r.w.spawned = 0
                    /\ Len(r.res.v) > 0 => r.w.f.last_read_end = Some(r.w.f.file_offset)

\* C35: a read that fails in a refill after k >= 0 bytes were copied has
\* moved file_offset by exactly k and reports none of the bytes;
\* last_read_end and eof_reached are as before and the buffer holds the
\* chunk copied from last. The next read that succeeds starts at the moved
\* offset, is taken for non-sequential when k > 0 and last_read_end was
\* set, and leaves the slot empty.
C35_PartialProgress == C35_FailedRead /\ C35_NextRead

\* a read has failed after it had copied bytes, past a last_read_end that
\* an earlier read had set
C35_Witness ==
    /\ last.op = "read" /\ Open(last.s) /\ ~IsOk(last.res)
    /\ IsSome(sess[last.s].last_read_end)
    /\ sess[last.s].file_offset > Unwrap(sess[last.s].last_read_end)
    /\ sess[last.s].buffer.buffer_end = sess[last.s].file_offset

\* the calls a probe that ends in an error has made: the whole budget for
\* Network, one for every other error
ProbeCalls(probe) == IF probe.res.v = "Network" THEN 1 + cfg.retry_max_attempts ELSE 1

\* session s with the size memoized as unknown, over the transport as the
\* failed probe left it
ProbedUnknown(s, probe) ==
    Call([sess[s] EXCEPT !.cached_size = Some(None)], cache, probe.net, orphans[s])

\* a session that has not probed yet, over a transport whose HEAD ends in an
\* error: size returns None and memoizes it, and a refill memoizes it and
\* goes on to the range exactly as a session that knows of no size does
C36_ProbeFails ==
    \A s \in Sessions :
        (Open(s) /\ sess[s].cached_size = None) =>
            \E probe \in {get_content_length_with_retry(net)} :
                ~IsOk(probe.res) =>
                    /\ probe.calls = ProbeCalls(probe)
                    /\ \E z \in {HttpFile_size(Start(s))} :
                           /\ z.res = None /\ z.w.err = None
                           /\ z.w.f = [sess[s] EXCEPT !.cached_size = Some(None)]
                           /\ z.w.heads = probe.calls /\ z.w.net = probe.net
                    /\ NeedsRefill(s) =>
                           \E r \in {refill_buffer(Start(s))}, m \in {refill_buffer(ProbedUnknown(s, probe))} :
                               /\ r.heads = probe.calls /\ m.heads = 0
                               /\ r.f = m.f /\ r.err = m.err /\ r.net = m.net
                               /\ r.gets = m.gets /\ r.wgets = m.wgets
                               /\ r.f.cached_size = Some(None)
                               /\ r.gets + r.wgets = 0 =>
                                      /\ IsSome(sess[s].prefetch)
                                      /\ IsSome(Unwrap(sess[s].prefetch).rx)

\* a session whose size is memoized as unknown: size returns None without
\* a call, and a refill makes no HEAD and sets eof_reached by the rule for
\* an unknown size, whatever the server would answer now
C36_Memoized ==
    \A s \in Sessions :
        (Open(s) /\ sess[s].cached_size = Some(None)) =>
            /\ \E z \in {HttpFile_size(Start(s))} :
                   z.res = None /\ z.w.heads = 0 /\ z.w.f = sess[s] /\ z.w.net = net
            /\ NeedsRefill(s) =>
                   \E r \in {refill_buffer(Start(s))} :
                       /\ r.heads = 0
                       /\ r.f.cached_size = Some(None)
                       /\ (r.err = None /\ r.f.buffer.data # <<>>) =>
                              r.f.eof_reached =
                                  (/\ Len(r.f.buffer.data) < cfg.chunk_size
                                   /\ sess[s].buffer.buffer_end > 0)
            /\ \A bufLen \in 1..MaxBuf :
                   \E r \in {HttpFile_read(Start(s), bufLen)} :
                       r.w.heads = 0 /\ r.w.f.cached_size = Some(None)

\* C36: a content-length probe that fails never fails a read or a size
\* call. When the retrying HEAD ends in an error (Network after
\* 1 + retry_max_attempts calls, any other error after one call) the size
\* is memoized as unknown, size() returns None from then on, the read that
\* probed goes on to the range fetch, and every later refill of the session
\* uses the EOF rule for an unknown size even when the server would now
\* report a length.
C36_ProbeFailure == C36_ProbeFails /\ C36_Memoized

\* a read spent the whole budget on a HEAD that kept failing, returned
\* bytes all the same, and the session holds the size as unknown while the
\* server would now report it
C36_Witness ==
    /\ OkRead /\ Len(last.res.v) > 0
    /\ cfg.retry_max_attempts >= 1
    /\ last.n.heads = 1 + cfg.retry_max_attempts
    /\ sess[last.s].cached_size = Some(None)
    /\ net.headKnown /\ net.headFails = 0 /\ ~net.headProto

====
